---- MODULE Spec2Model ----
(***************************************************************************)
(* Lead intake pipeline of SharpspringAPIproject: the bulk sync job        *)
(* (jobs/sync-leads.ts), the SharpSpring webhook (webhooks/                *)
(* sharpspring-webhook.ts), the interaction-logging endpoint (server.ts),  *)
(* the scorer (services/scoring) and the lead store and notifier they      *)
(* call.                                                                   *)
(*                                                                         *)
(* JavaScript values.  A string is a tuple of one-character strings, so    *)
(* that includes / endsWith / toLowerCase / parseInt are computed and not  *)
(* assumed.  null and undefined are two tuples that are no string.  An     *)
(* object is a TLA+ record; a key that is absent reads as undefined.  A    *)
(* nullable number is <<>> (null / NaN) or <<n>>.                          *)
(***************************************************************************)
EXTENDS Integers, Sequences, FiniteSets, TLC

\* ------------------------------------------------------------------------
\* JavaScript values and string primitives
\* ------------------------------------------------------------------------

Null == <<"null">>

Undefined == <<"undefined">>

NoNum == <<>>

Num(n) == <<n>>

\* obj[key], undefined when the key is absent
Get(obj, key) == IF key \in DOMAIN obj THEN obj[key] ELSE Undefined

\* Boolean(v) for a string, null or undefined
Truthy(v) == v # Null /\ v # Undefined /\ v # <<>>

\* a || b
OrElse(a, b) == IF Truthy(a) THEN a ELSE b

\* a ?? b
Coalesce(a, b) == IF a # Null /\ a # Undefined THEN a ELSE b

UpperCase == <<"A","B","C","D","E","F","G","H","I","J","K","L","M",
               "N","O","P","Q","R","S","T","U","V","W","X","Y","Z">>

LowerCase == <<"a","b","c","d","e","f","g","h","i","j","k","l","m",
               "n","o","p","q","r","s","t","u","v","w","x","y","z">>

toLowerChar(c) ==
    IF \E i \in 1..26 : UpperCase[i] = c
      THEN LowerCase[CHOOSE i \in 1..26 : UpperCase[i] = c]
      ELSE c

\* String.prototype.toLowerCase
toLowerCase(s) == [i \in 1..Len(s) |-> toLowerChar(s[i])]

\* String.prototype.includes
includes(s, sub) ==
    \E i \in 0..(Len(s) - Len(sub)) :
        \A j \in 1..Len(sub) : s[i + j] = sub[j]

\* String.prototype.endsWith
endsWith(s, suf) ==
    /\ Len(suf) <= Len(s)
    /\ \A j \in 1..Len(suf) : s[Len(s) - Len(suf) + j] = suf[j]

Digits == <<"0","1","2","3","4","5","6","7","8","9">>

IsDigit(c) == \E d \in 1..10 : Digits[d] = c

DigitVal(c) == (CHOOSE d \in 1..10 : Digits[d] = c) - 1

RECURSIVE DigitsValue(_, _, _)
\* value of the longest run of decimal digits of s starting at i, acc so far
DigitsValue(s, i, acc) ==
    IF i <= Len(s) /\ IsDigit(s[i])
      THEN DigitsValue(s, i + 1, acc * 10 + DigitVal(s[i]))
      ELSE acc

RECURSIVE SkipSpaces(_, _)
SkipSpaces(s, i) == IF i <= Len(s) /\ s[i] = " " THEN SkipSpaces(s, i + 1) ELSE i

\* parseInt(s, 10): leading blanks, an optional sign, then digits; NaN (NoNum)
\* when no digit follows
parseInt(s) ==
    LET i0   == SkipSpaces(s, 1)
        neg  == i0 <= Len(s) /\ s[i0] = "-"
        sgn  == i0 <= Len(s) /\ (s[i0] = "-" \/ s[i0] = "+")
        i1   == IF sgn THEN i0 + 1 ELSE i0
    IN  IF i1 <= Len(s) /\ IsDigit(s[i1])
          THEN Num((IF neg THEN -1 ELSE 1) * DigitsValue(s, i1, 0))
          ELSE NoNum

\* Math.floor(n * 1.5) and Math.floor(n * 0.5) on integers
FloorTimesOneAndHalf(n) == (3 * n) \div 2

FloorHalf(n) == n \div 2

Max(a, b) == IF a >= b THEN a ELSE b

\* ------------------------------------------------------------------------
\* String literals of the program
\* ------------------------------------------------------------------------

S_1 == <<"1">>

S_manager == <<"m","a","n","a","g","e","r">>

S_director == <<"d","i","r","e","c","t","o","r">>

S_vp == <<"v","p">>

S_owner == <<"o","w","n","e","r">>

S_ceo == <<"c","e","o">>

S_president == <<"p","r","e","s","i","d","e","n","t">>

S_within1 == <<"w","i","t","h","i","n"," ","1"," ","m","o","n","t","h">>

S_within3 == <<"w","i","t","h","i","n"," ","3"," ","m","o","n","t","h">>

S_within6 == <<"w","i","t","h","i","n"," ","6"," ","m","o","n","t","h">>

S_competitor == <<"@","c","o","m","p","e","t","i","t","o","r",".","c","o","m">>

S_QualifiedLead == <<"Q","u","a","l","i","f","i","e","d"," ","L","e","a","d">>

S_Contact == <<"C","o","n","t","a","c","t">>

S_Prospect == <<"P","r","o","s","p","e","c","t">>

S_open == <<"o","p","e","n">>

\* ------------------------------------------------------------------------
\* Scorer (services/scoring)
\* ------------------------------------------------------------------------

\* The members an object literal inherits from Object.prototype: statusScores
\* of such a key is a function or an object, truthy and no number
ObjectPrototypeKeys ==
    { <<"c","o","n","s","t","r","u","c","t","o","r">>,
      <<"h","a","s","O","w","n","P","r","o","p","e","r","t","y">>,
      <<"i","s","P","r","o","t","o","t","y","p","e","O","f">>,
      <<"p","r","o","p","e","r","t","y","I","s","E","n","u","m","e","r","a","b","l","e">>,
      <<"t","o","L","o","c","a","l","e","S","t","r","i","n","g">>,
      <<"t","o","S","t","r","i","n","g">>,
      <<"v","a","l","u","e","O","f">>,
      <<"_","_","p","r","o","t","o","_","_">> }

\* score += of an inherited member makes score a string, which the arithmetic
\* of the later steps and Math.max(0, score) turn into NaN
scoreIsNaN(ssLead) ==
    OrElse(Get(ssLead, "leadStatus"), <<>>) \in ObjectPrototypeKeys

\* statusScores[ssLead.leadStatus || ''] || 0
statusScores(status) ==
    CASE status = S_QualifiedLead -> 25
      [] status = S_Contact -> 10
      [] status = S_Prospect -> 5
      [] status = S_open -> 8
      [] OTHER -> 0

titlePoints(ssLead) ==
    LET title == Get(ssLead, "title") IN
    IF Truthy(title)
      THEN LET titleLower == toLowerCase(title) IN
           (IF \/ includes(titleLower, S_manager)
               \/ includes(titleLower, S_director)
               \/ includes(titleLower, S_vp)
               \/ includes(titleLower, S_owner)
              THEN 15 ELSE 0)
           + (IF includes(titleLower, S_ceo) \/ includes(titleLower, S_president)
                THEN 20 ELSE 0)
      ELSE 0

keyInfoPoints(ssLead) ==
      (IF Truthy(Get(ssLead, "emailAddress")) THEN 5 ELSE 0)
    + (IF Truthy(Get(ssLead, "phoneNumber")) THEN 5 ELSE 0)
    + (IF Truthy(Get(ssLead, "companyName")) THEN 5 ELSE 0)

\* timeFramePoints, with every phrase found counted
timeFramePointsOfEveryPhrase(ssLead) ==
    LET tf == Get(ssLead, "time_frame_5eceb4e7d9474") IN
    IF Truthy(tf)
      THEN LET timeFrame == toLowerCase(tf) IN
             (IF includes(timeFrame, S_within1) THEN 25 ELSE 0)
           + (IF includes(timeFrame, S_within3) THEN 15 ELSE 0)
           + (IF includes(timeFrame, S_within6) THEN 10 ELSE 0)
      ELSE 0

timeFramePoints(ssLead) ==
    LET tf == Get(ssLead, "time_frame_5eceb4e7d9474") IN
    IF Truthy(tf)
      THEN LET timeFrame == toLowerCase(tf) IN
           IF includes(timeFrame, S_within1) THEN 25
           ELSE IF includes(timeFrame, S_within3) THEN 15
           ELSE IF includes(timeFrame, S_within6) THEN 10
           ELSE 0
      ELSE 0

nativeScorePoints(ssLead) ==
    LET ls == Get(ssLead, "leadScore") IN
    IF Truthy(ls)
      THEN LET ssScore == parseInt(ls) IN
           IF ssScore # NoNum THEN FloorHalf(ssScore[1]) ELSE 0
      ELSE 0

\* calculateInitialScore, without Math.max(0, score)
calculateInitialScoreUnclamped(ssLead) ==
    LET additive == statusScores(OrElse(Get(ssLead, "leadStatus"), <<>>))
                    + titlePoints(ssLead)
                    + keyInfoPoints(ssLead)
                    + timeFramePoints(ssLead)
                    + nativeScorePoints(ssLead)
        customer == IF Get(ssLead, "isCustomer") = S_1
                      THEN FloorTimesOneAndHalf(additive) ELSE additive
        email    == Get(ssLead, "emailAddress")
        deducted == IF email # Null /\ email # Undefined /\ endsWith(email, S_competitor)
                      THEN customer - 10 ELSE customer
    IN  IF Get(ssLead, "isUnsubscribed") = S_1 THEN FloorHalf(deducted) ELSE deducted

\* calculateInitialScore, with the competitor deduction made before the
\* customer multiplier
calculateInitialScoreDeductingFirst(ssLead) ==
    LET additive == statusScores(OrElse(Get(ssLead, "leadStatus"), <<>>))
                    + titlePoints(ssLead)
                    + keyInfoPoints(ssLead)
                    + timeFramePoints(ssLead)
                    + nativeScorePoints(ssLead)
        email    == Get(ssLead, "emailAddress")
        deducted == IF email # Null /\ email # Undefined /\ endsWith(email, S_competitor)
                      THEN additive - 10 ELSE additive
        customer == IF Get(ssLead, "isCustomer") = S_1
                      THEN FloorTimesOneAndHalf(deducted) ELSE deducted
        unsub    == IF Get(ssLead, "isUnsubscribed") = S_1
                      THEN FloorHalf(customer) ELSE customer
    IN  Max(0, unsub)

calculateInitialScore(ssLead) ==
    LET additive == statusScores(OrElse(Get(ssLead, "leadStatus"), <<>>))
                    + titlePoints(ssLead)
                    + keyInfoPoints(ssLead)
                    + timeFramePoints(ssLead)
                    + nativeScorePoints(ssLead)
        customer == IF Get(ssLead, "isCustomer") = S_1
                      THEN FloorTimesOneAndHalf(additive) ELSE additive
        email    == Get(ssLead, "emailAddress")
        deducted == IF email # Null /\ email # Undefined /\ endsWith(email, S_competitor)
                      THEN customer - 10 ELSE customer
        unsub    == IF Get(ssLead, "isUnsubscribed") = S_1
                      THEN FloorHalf(deducted) ELSE deducted
    IN  Max(0, unsub)


\* ------------------------------------------------------------------------
\* Lead mapper (utils/lead-mapper, and its copy in jobs/sync-leads.ts)
\* ------------------------------------------------------------------------

S_undefined == <<"u","n","d","e","f","i","n","e","d">>

S_null == <<"n","u","l","l">>

\* String(v) of a string, null or undefined
JsString(v) ==
    IF v = Undefined THEN S_undefined ELSE IF v = Null THEN S_null ELSE v

\* [firstName, lastName].filter(Boolean).join(' ') || null
joinName(first, last) ==
    IF Truthy(first) /\ Truthy(last) THEN first \o <<" ">> \o last
    ELSE IF Truthy(first) THEN first
    ELSE IF Truthy(last) THEN last
    ELSE Null

\* a JSON number where a string is expected: any string method on it throws
NumberValue == <<"[number]">>

\* the TypeError of .toLowerCase() / .endsWith() / parseInt on a non-string
scoringThrows(ssLead) ==
    \/ Get(ssLead, "title") = NumberValue
    \/ Get(ssLead, "time_frame_5eceb4e7d9474") = NumberValue
    \/ Get(ssLead, "emailAddress") = NumberValue

mapSharpSpringToLead(ssLead) ==
    [ sharpspring_id      |-> JsString(Get(ssLead, "id")),
      name                |-> joinName(Get(ssLead, "firstName"), Get(ssLead, "lastName")),
      email               |-> OrElse(Get(ssLead, "emailAddress"), Null),
      phone               |-> OrElse(Get(ssLead, "mobilePhoneNumber"),
                                OrElse(Get(ssLead, "phoneNumber"),
                                  OrElse(Get(ssLead, "officePhoneNumber"), Null))),
      score               |-> 0,
      tags                |-> Null,
      last_contacted      |-> Null,
      company_name        |-> OrElse(Get(ssLead, "companyName"), Null),
      title               |-> OrElse(Get(ssLead, "title"), Null),
      website             |-> OrElse(Get(ssLead, "website"), Null),
      lead_status         |-> OrElse(Get(ssLead, "leadStatus"), Null),
      is_customer         |-> Get(ssLead, "isCustomer") = S_1,
      is_qualified        |-> Get(ssLead, "isQualified") = S_1,
      ss_create_timestamp |-> OrElse(Get(ssLead, "createTimestamp"), Null),
      ss_update_timestamp |-> OrElse(Get(ssLead, "updateTimestamp"), Null),
      lead_source         |-> Null,
      initial_lead_source |-> OrElse(Get(ssLead, "initial_lead_source_5ecff3dcb9ec7"), Null),
      time_frame          |-> OrElse(Get(ssLead, "time_frame_5eceb4e7d9474"), Null),
      city                |-> OrElse(Get(ssLead, "city"), Null),
      state               |-> OrElse(Get(ssLead, "state"), Null),
      zipcode             |-> OrElse(Get(ssLead, "zipcode"), Null),
      ss_lead_score       |-> IF Truthy(Get(ssLead, "leadScore"))
                                THEN parseInt(Get(ssLead, "leadScore")) ELSE NoNum ]

\* ------------------------------------------------------------------------
\* Bounds and inputs
\* ------------------------------------------------------------------------

\* payloads and requests handled in one behaviour: each payload of a getLeads
\* page, each webhook delivery and each interaction request counts as one
MaxRuns == 2

\* injected failures of store calls
MaxFaults == 1

LEAD_SCORE_THRESHOLD == 85

L1 == <<"L","1">>

L2 == <<"L","2">>

EmailA == <<"a","@","x",".","c","o","m">>

EmailB == <<"b","@","x",".","c","o","m">>

\* scores 110: status 25, title 15, email/phone/company 15, time frame 25, native 30
HotBody ==
    [ firstName |-> <<"A","n","n">>, lastName |-> <<"L","e","e">>,
      emailAddress |-> EmailA, phoneNumber |-> <<"5","5","5">>,
      companyName |-> <<"A","c","m","e">>, title |-> <<"V","P">>,
      leadStatus |-> S_QualifiedLead, leadScore |-> <<"6","0">>,
      isCustomer |-> <<"0">>, isQualified |-> S_1,
      time_frame_5eceb4e7d9474 |-> <<"W","i","t","h","i","n"," ","1"," ","m","o","n","t","h">>,
      initial_lead_source_5ecff3dcb9ec7 |-> <<"w","e","b">>,
      website |-> <<"x",".","c","o","m">>, city |-> <<"B","o","s">>,
      state |-> <<"M","A">>, zipcode |-> <<"0","2","1">>,
      createTimestamp |-> <<"t","0">>, updateTimestamp |-> <<"t","1">> ]

\* scores 75: status 25, title 15, email 5, phone 5, time frame 25
WarmBody ==
    [ emailAddress |-> EmailB, phoneNumber |-> <<"5","5","6">>,
      title |-> <<"V","P"," ","o","f"," ","S","a","l","e","s">>,
      leadStatus |-> S_QualifiedLead,
      time_frame_5eceb4e7d9474 |-> <<"w","i","t","h","i","n"," ","1"," ","m","o","n","t","h">> ]

\* scores 93: customer multiplier on 25 + 20 + 5 + 12 = 62
CustomerBody ==
    [ firstName |-> <<"B","o">>, emailAddress |-> Null, mobilePhoneNumber |-> <<"7","7","7">>,
      title |-> <<"C","E","O">>, leadStatus |-> S_QualifiedLead,
      companyName |-> <<"I","n","c">>, leadScore |-> <<"2","5">>, isCustomer |-> S_1 ]

\* scores 0: the upstream score -40 gives -20, and the email 5; clamped
LowBody == [ emailAddress |-> EmailB, leadScore |-> <<"-","4","0">> ]

\* a title that is a JSON number: scoring throws
BrokenBody == [ title |-> NumberValue, emailAddress |-> EmailA ]

WithId(body, id) == [k \in DOMAIN body \cup {"id"} |-> IF k = "id" THEN id ELSE body[k]]

\* what getLeads returns, item by item
SyncPayloads ==
    { WithId(HotBody, L1), WithId(WarmBody, L1),
      WithId(CustomerBody, L2), WithId(BrokenBody, L2), WithId(LowBody, L2), WarmBody }

\* { lead: { name: 'Karli' } }, the name-only delivery of the webhook test script
KarliBody == [ name |-> <<"K","a","r","l","i">> ]

\* A JSON value of a request body, with its typeof: the primitive properties
\* of an object are the record v, its object-valued properties the sequence
\* sub, in the order of Object.keys
JsUndefined == [t |-> "undefined", v |-> <<>>, sub |-> <<>>]

JsNull == [t |-> "null", v |-> <<>>, sub |-> <<>>]

JsNumber == [t |-> "number", v |-> <<>>, sub |-> <<>>]

Str(s) == [t |-> "string", v |-> s, sub |-> <<>>]

Obj(fields, subs) == [t |-> "object", v |-> fields, sub |-> subs]

\* { lead: value }
Wrapped(value) == Obj(<<>>, << [key |-> "lead", val |-> value] >>)

\* the lead objects of webhook deliveries
WebhookPayloads ==
    { WithId(HotBody, L1), WithId(WarmBody, L1), WithId(CustomerBody, L2), KarliBody }

\* POST /webhooks/sharpspring: the x-webhook-secret header and the body
WebhookRequests ==
    { [secret |-> "ok", body |-> Wrapped(Obj(p, <<>>))] : p \in WebhookPayloads }
    \cup { [secret |-> "bad", body |-> Wrapped(Obj(KarliBody, <<>>))],
           [secret |-> "ok", body |-> JsUndefined],
           [secret |-> "ok", body |-> Obj(KarliBody, <<>>)] }

\* the configurations of process.env the model starts from
Envs ==
    { [slack |-> TRUE,  supabase |-> TRUE, openai |-> TRUE,  secret |-> TRUE],
      [slack |-> FALSE, supabase |-> TRUE, openai |-> TRUE,  secret |-> TRUE],
      [slack |-> TRUE,  supabase |-> TRUE, openai |-> FALSE, secret |-> TRUE],
      [slack |-> TRUE,  supabase |-> TRUE, openai |-> TRUE,  secret |-> FALSE] }

S_ts == <<"1",".","5">>

\* ------------------------------------------------------------------------
\* State
\* ------------------------------------------------------------------------

VARIABLES
    env,           \* process.env: which credentials are configured
    now,           \* Date.now()
    leads,         \* table leads, in insertion order; a row's id is its index
    slack_alerts,  \* table slack_alerts
    interactions,  \* table interactions
    run,           \* the pipeline run in progress (or the last one finished)
    runs,          \* runs started so far
    faults,        \* failures injected so far
    sinceBelow     \* per lead id: high-score alerts dispatched since the stored
                   \* score of the lead was last below the threshold

vars == <<env, now, leads, slack_alerts, interactions, run, runs, faults, sinceBelow>>

Idle ==
    [ kind |-> "none", pc |-> "done",
      fetched |-> 0, idx |-> 0,
      processedCount |-> 0, errorCount |-> 0, newLeadsCount |-> 0,
      updatedLeadsCount |-> 0, alertedLeadsCount |-> 0,
      ssLead |-> [id |-> Null], ssid |-> Null, score |-> 0,
      existing |-> <<>>, originalScore |-> 0, saved |-> <<>>,
      messageTs |-> Null, responses |-> <<>>, req |-> <<>>, aiSummary |-> Null,
      returned |-> NoNum,
      \* the run of the other request in flight, when two are interleaved
      parked |-> <<>>,
      \* bookkeeping of the current payload, for the properties
      branch |-> "none", storedBefore |-> 0, dispatched |-> <<>>,
      outcomes |-> <<>>, items |-> <<>> ]

\* respond, with the acknowledgement of a delivery left out
respondOnlyErrors(r, status) ==
    IF status = 200 THEN r ELSE [r EXCEPT !.responses = Append(r.responses, status)]

\* res.status(status).json(...)
respond(r, status) == [r EXCEPT !.responses = Append(r.responses, status)]

\* ------------------------------------------------------------------------
\* Lead store gateway (supabase-js against supabase-schema.sql)
\* ------------------------------------------------------------------------

\* findBySharpSpringId, with a filter that matches no row
findNothing(table, ssid, fails) ==
    IF fails THEN [data |-> <<>>, error |-> "other"]
    ELSE [data |-> <<>>, error |-> "PGRST116"]

\* .from('leads').select('*').eq('sharpspring_id', id).single()
\* PGRST116 for no row (and for several); any other code is a failed call
findBySharpSpringIdHidingError(table, ssid, fails) ==
    LET hits == { i \in 1..Len(table) : table[i].sharpspring_id = ssid } IN
    IF fails THEN [data |-> <<>>, error |-> "PGRST116"]
    ELSE IF Cardinality(hits) = 1
      THEN [data |-> << table[CHOOSE i \in hits : TRUE] >>, error |-> "none"]
      ELSE [data |-> <<>>, error |-> "PGRST116"]

findBySharpSpringId(table, ssid, fails) ==
    LET hits == { i \in 1..Len(table) : table[i].sharpspring_id = ssid } IN
    IF fails THEN [data |-> <<>>, error |-> "other"]
    ELSE IF Cardinality(hits) = 1
      THEN [data |-> << table[CHOOSE i \in hits : TRUE] >>, error |-> "none"]
      ELSE [data |-> <<>>, error |-> "PGRST116"]

\* insertLead, for a table without the UNIQUE constraint
insertLeadWithoutUnique(table, payload, fails) ==
    LET row == [k \in DOMAIN payload \cup {"id"} |->
                  IF k = "id" THEN Len(table) + 1 ELSE payload[k]]
    IN  IF fails THEN [table |-> table, data |-> <<>>, error |-> "other"]
        ELSE [table |-> Append(table, row), data |-> <<row>>, error |-> "none"]

\* .from('leads').insert([payload]).select().single(): sharpspring_id is UNIQUE
insertLead(table, payload, fails) ==
    LET clash == \E i \in 1..Len(table) : table[i].sharpspring_id = payload.sharpspring_id
        row   == [k \in DOMAIN payload \cup {"id"} |->
                    IF k = "id" THEN Len(table) + 1 ELSE payload[k]]
    IN  IF fails THEN [table |-> table, data |-> <<>>, error |-> "other"]
        ELSE IF clash THEN [table |-> table, data |-> <<>>, error |-> "23505"]
        ELSE [table |-> Append(table, row), data |-> <<row>>, error |-> "none"]

\* .from('leads').update(payload).eq('id', id).select().single()
updateLeadRow(table, id, payload, fails) ==
    IF fails \/ id \notin 1..Len(table)
      THEN [table |-> table, data |-> <<>>, error |-> "other"]
      ELSE LET row == [k \in DOMAIN table[id] |->
                         IF k \in DOMAIN payload THEN payload[k] ELSE table[id][k]]
           IN  [table |-> [table EXCEPT ![id] = row], data |-> <<row>>, error |-> "none"]

FaultChoices == IF faults < MaxFaults THEN {FALSE, TRUE} ELSE {FALSE}

Fault(f) == faults' = IF f THEN faults + 1 ELSE faults

\* ------------------------------------------------------------------------
\* Notifier (services/slack)
\* ------------------------------------------------------------------------

\* what one call of sendNewLeadNotification / sendHighScoreAlert can end in:
\* no webhook URL, a post answered with a ts, or a post that failed or was
\* answered without one
NotifierOutcomes ==
    IF ~env.slack THEN {"unconfigured"} ELSE {"ts", "none"}

\* the value the call returns
NotifierResult(outcome) == IF outcome = "ts" THEN S_ts ELSE Null

Call(kind, lead, score, outcome) ==
    [kind |-> kind, lead_id |-> lead.id, score |-> score, outcome |-> outcome]

\* ------------------------------------------------------------------------
\* The merge of an update and the threshold test
\* ------------------------------------------------------------------------

\* updatePayload, with the email taken from the payload as it is
updatePayloadTakingEmail(leadData, existingLead, ssid, score, t) ==
    [k \in DOMAIN leadData \cup {"updated_at"} |->
        CASE k = "sharpspring_id" -> ssid
          [] k = "name" -> Coalesce(leadData.name, existingLead.name)
          [] k = "phone" -> Coalesce(leadData.phone, existingLead.phone)
          [] k = "tags" -> Coalesce(leadData.tags, existingLead.tags)
          [] k = "last_contacted" ->
                Coalesce(leadData.last_contacted, existingLead.last_contacted)
          [] k = "score" -> score
          [] k = "updated_at" -> t
          [] OTHER -> leadData[k]]

\* updatePayload, with the company merged like the name
updatePayloadKeepingCompany(leadData, existingLead, ssid, score, t) ==
    [k \in DOMAIN leadData \cup {"updated_at"} |->
        CASE k = "sharpspring_id" -> ssid
          [] k = "name" -> Coalesce(leadData.name, existingLead.name)
          [] k = "email" -> Coalesce(leadData.email, existingLead.email)
          [] k = "phone" -> Coalesce(leadData.phone, existingLead.phone)
          [] k = "tags" -> Coalesce(leadData.tags, existingLead.tags)
          [] k = "last_contacted" ->
                Coalesce(leadData.last_contacted, existingLead.last_contacted)
          [] k = "company_name" ->
                Coalesce(leadData.company_name, existingLead.company_name)
          [] k = "score" -> score
          [] k = "updated_at" -> t
          [] OTHER -> leadData[k]]

\* { ...leadData, sharpspring_id, name: leadData.name ?? existingLead.name, ...,
\*   score, updated_at }
updatePayloadKeepingHigherScore(leadData, existingLead, ssid, score, t) ==
    [k \in DOMAIN leadData \cup {"updated_at"} |->
        CASE k = "sharpspring_id" -> ssid
          [] k = "name" -> Coalesce(leadData.name, existingLead.name)
          [] k = "email" -> Coalesce(leadData.email, existingLead.email)
          [] k = "phone" -> Coalesce(leadData.phone, existingLead.phone)
          [] k = "tags" -> Coalesce(leadData.tags, existingLead.tags)
          [] k = "last_contacted" ->
                Coalesce(leadData.last_contacted, existingLead.last_contacted)
          [] k = "score" -> IF existingLead.score > score
                              THEN existingLead.score ELSE score
          [] k = "updated_at" -> t
          [] OTHER -> leadData[k]]

updatePayloadWritingCreated(leadData, existingLead, ssid, score, t) ==
    [k \in DOMAIN leadData \cup {"created_at", "updated_at"} |->
        CASE k = "sharpspring_id" -> ssid
          [] k = "name" -> Coalesce(leadData.name, existingLead.name)
          [] k = "email" -> Coalesce(leadData.email, existingLead.email)
          [] k = "phone" -> Coalesce(leadData.phone, existingLead.phone)
          [] k = "tags" -> Coalesce(leadData.tags, existingLead.tags)
          [] k = "last_contacted" ->
                Coalesce(leadData.last_contacted, existingLead.last_contacted)
          [] k = "score" -> score
          [] k = "created_at" -> t
          [] k = "updated_at" -> t
          [] OTHER -> leadData[k]]

updatePayload(leadData, existingLead, ssid, score, t) ==
    [k \in DOMAIN leadData \cup {"updated_at"} |->
        CASE k = "sharpspring_id" -> ssid
          [] k = "name" -> Coalesce(leadData.name, existingLead.name)
          [] k = "email" -> Coalesce(leadData.email, existingLead.email)
          [] k = "phone" -> Coalesce(leadData.phone, existingLead.phone)
          [] k = "tags" -> Coalesce(leadData.tags, existingLead.tags)
          [] k = "last_contacted" ->
                Coalesce(leadData.last_contacted, existingLead.last_contacted)
          [] k = "score" -> score
          [] k = "updated_at" -> t
          [] OTHER -> leadData[k]]

\* { ...leadData, sharpspring_id, created_at, updated_at }
createPayload(leadData, ssid, score, t) ==
    [k \in DOMAIN leadData \cup {"created_at", "updated_at"} |->
        CASE k = "sharpspring_id" -> ssid
          [] k = "score" -> score
          [] k = "created_at" -> t
          [] k = "updated_at" -> t
          [] OTHER -> leadData[k]]

\* a lead that another client of the store (the chat bot) has tagged and contacted
SeedLead ==
    [ createPayload(mapSharpSpringToLead(WithId(HotBody, L2)), L2, 90, 0) EXCEPT
        !.tags = << <<"v","i","p">>, <<"h","o","t">> >>,
        !.last_contacted = <<"t","9">> ]

\* crossedThreshold, with the test of the stored score left out
crossedThresholdIgnoringOriginal(score, originalScore) ==
    score >= LEAD_SCORE_THRESHOLD

\* score >= LEAD_SCORE_THRESHOLD && originalScore < LEAD_SCORE_THRESHOLD
crossedThreshold(score, originalScore) ==
    score >= LEAD_SCORE_THRESHOLD /\ originalScore < LEAD_SCORE_THRESHOLD


\* ------------------------------------------------------------------------
\* Initial state
\* ------------------------------------------------------------------------

Init ==
    /\ env \in Envs
    /\ now = 1
    /\ leads \in { <<>>, insertLead(<<>>, SeedLead, FALSE).table }
    /\ slack_alerts = <<>>
    /\ interactions = <<>>
    /\ run = Idle
    /\ runs = 0
    /\ faults = 0
    /\ sinceBelow = <<>>

\* the high-score alerts counted against a lead: one more on a dispatch, none
\* once the stored score is below the threshold
Track(table, alertedId) ==
    [i \in 1..Len(table) |->
        LET old == IF i \in 1..Len(sinceBelow) THEN sinceBelow[i] ELSE 0
            cur == IF table[i].score < LEAD_SCORE_THRESHOLD THEN 0 ELSE old
        IN  IF i = alertedId /\ cur < 2 THEN cur + 1 ELSE cur]

CanStart == run.pc = "done" /\ runs < MaxRuns

Begin(n) ==
    /\ runs' = runs + n
    /\ now' = now + 1

\* ------------------------------------------------------------------------
\* Bulk sync (jobs/sync-leads.ts, syncLeads)
\* ------------------------------------------------------------------------

\* credentials, connection test and getLeads({ limit: 10 }).  The page has n
\* payloads; nothing but the loop reads them, so each is drawn when the loop
\* reaches it (SyncItem)
SyncStart ==
    /\ CanStart
    /\ \E n \in 0..(MaxRuns - runs), connectFails \in FaultChoices :
        /\ Begin(IF n = 0 THEN 1 ELSE n)
        /\ Fault(connectFails /\ env.supabase)
        /\ run' = [Idle EXCEPT
                     !.kind = "sync",
                     !.fetched = IF env.supabase /\ ~connectFails THEN n ELSE 0,
                     !.idx = 1,
                     !.pc = IF env.supabase /\ ~connectFails /\ n > 0
                              THEN "sync_item" ELSE "done"]
    /\ UNCHANGED <<interactions, env, leads, slack_alerts, sinceBelow>>

\* how the payload the loop leaves ended: its lead saved, or the exit it took
itemResult(r) ==
    IF r.saved # <<>> THEN "saved"
    ELSE IF r.branch \in {"skipped", "threw", "find_error"} THEN r.branch
    ELSE "write_error"

\* NextItem, with a failed payload ending the loop
NextItemAborting(r) ==
    [r EXCEPT !.idx = r.idx + 1,
              !.items = Append(r.items, itemResult(r)),
              !.pc = IF r.idx + 1 > r.fetched \/ r.saved = <<>>
                       THEN "done" ELSE "sync_item"]

\* the state of the loop when it turns to the next payload (continue, or the
\* end of the body)
NextItem(r) ==
    [r EXCEPT !.idx = r.idx + 1,
              !.items = Append(r.items, itemResult(r)),
              !.pc = IF r.idx + 1 > r.fetched THEN "done" ELSE "sync_item"]

\* lines 80-95: the id guard, the mapping and the score of one payload
SyncItem ==
    /\ run.pc = "sync_item"
    /\ \E ssLead \in SyncPayloads :
       LET id     == Get(ssLead, "id")
           fresh  == [run EXCEPT !.ssLead = ssLead, !.branch = "none",
                                 !.dispatched = <<>>, !.outcomes = <<>>,
                                 !.existing = <<>>, !.saved = <<>>,
                                 !.originalScore = 0, !.storedBefore = 0,
                                 !.messageTs = Null, !.score = 0, !.ssid = Null]
       IN  run' =
             IF id = Undefined \/ id = Null
               THEN NextItem([fresh EXCEPT !.errorCount = run.errorCount + 1,
                                           !.branch = "skipped"])
             ELSE IF scoringThrows(ssLead)
               THEN NextItem([fresh EXCEPT !.errorCount = run.errorCount + 1,
                                           !.ssid = JsString(id),
                                           !.branch = "threw"])
             ELSE [fresh EXCEPT !.ssid = JsString(id),
                                !.score = calculateInitialScore(ssLead),
                                !.pc = "sync_find"]
    /\ UNCHANGED <<interactions, env, now, leads, slack_alerts, runs, faults, sinceBelow>>

\* lines 97-132 and 153-161: the lookup and the choice of the branch
SyncFindNotCounting ==
    /\ run.pc = "sync_find"
    /\ \E f \in FaultChoices :
        /\ Fault(f)
        /\ LET res == findBySharpSpringId(leads, run.ssid, f) IN
           run' =
             IF res.error \notin {"none", "PGRST116"}
               THEN NextItem([run EXCEPT !.branch = "find_error"])
             ELSE IF res.data # <<>>
               THEN [run EXCEPT !.existing = res.data,
                                !.updatedLeadsCount = run.updatedLeadsCount + 1,
                                !.originalScore = res.data[1].score,
                                !.branch = "update",
                                !.pc = "sync_update"]
             ELSE [run EXCEPT !.newLeadsCount = run.newLeadsCount + 1,
                              !.branch = "create",
                              !.pc = "sync_insert"]
    /\ UNCHANGED <<interactions, env, now, leads, slack_alerts, runs, sinceBelow>>

SyncFind ==
    /\ run.pc = "sync_find"
    /\ \E f \in FaultChoices :
        /\ Fault(f)
        /\ LET res == findBySharpSpringId(leads, run.ssid, f) IN
           run' =
             IF res.error \notin {"none", "PGRST116"}
               THEN NextItem([run EXCEPT !.errorCount = run.errorCount + 1,
                                         !.branch = "find_error"])
             ELSE IF res.data # <<>>
               THEN [run EXCEPT !.existing = res.data,
                                !.updatedLeadsCount = run.updatedLeadsCount + 1,
                                !.originalScore = res.data[1].score,
                                !.branch = "update",
                                !.pc = "sync_update"]
             ELSE [run EXCEPT !.newLeadsCount = run.newLeadsCount + 1,
                              !.branch = "create",
                              !.pc = "sync_insert"]
    /\ UNCHANGED <<interactions, env, now, leads, slack_alerts, runs, sinceBelow>>

\* lines 134-151: the update of the existing row
SyncUpdate ==
    /\ run.pc = "sync_update"
    /\ \E f \in FaultChoices :
        /\ Fault(f)
        /\ LET existingLead == run.existing[1]
               payload == updatePayload(mapSharpSpringToLead(run.ssLead), existingLead,
                                        run.ssid, run.score, now)
               res == updateLeadRow(leads, existingLead.id, payload, f)
           IN  /\ leads' = res.table
               /\ sinceBelow' = Track(res.table, 0)
               /\ run' =
                    IF res.error # "none"
                      THEN NextItem([run EXCEPT !.errorCount = run.errorCount + 1,
                                                !.outcomes = Append(run.outcomes, "update_error")])
                      ELSE [run EXCEPT !.saved = res.data,
                                       !.storedBefore = leads[existingLead.id].score,
                                       !.outcomes = Append(run.outcomes, "updated"),
                                       !.pc = "sync_threshold"]
    /\ UNCHANGED <<interactions, env, now, slack_alerts, runs>>

\* lines 163-183: the insert of the new row, then the new-lead notification is sent
SyncInsert ==
    /\ run.pc = "sync_insert"
    /\ \E f \in FaultChoices :
        /\ Fault(f)
        /\ LET payload == createPayload(mapSharpSpringToLead(run.ssLead),
                                        run.ssid, run.score, now)
               res == insertLead(leads, payload, f)
           IN  /\ leads' = res.table
               /\ sinceBelow' = Track(res.table, 0)
               /\ run' =
                    IF res.error # "none"
                      THEN NextItem([run EXCEPT !.errorCount = run.errorCount + 1,
                                                !.outcomes = Append(run.outcomes, "insert_error")])
                      ELSE [run EXCEPT !.saved = res.data,
                                       !.originalScore = 0,
                                       !.storedBefore = 0,
                                       !.outcomes = Append(run.outcomes, "inserted"),
                                       !.pc = "sync_new_notify"]
    /\ UNCHANGED <<interactions, env, now, slack_alerts, runs>>

\* SyncNewNotify, with a notification that returned no timestamp counted as
\* an error of the payload
SyncNewNotifyFatal ==
    /\ run.pc = "sync_new_notify"
    /\ \E outcome \in NotifierOutcomes, logFails \in FaultChoices :
        LET messageTs == NotifierResult(outcome)
            savedLead == run.saved[1]
            logged    == messageTs # Null /\ ~logFails
            called    == [run EXCEPT
                            !.dispatched = Append(run.dispatched,
                                                  Call("new_lead", savedLead, run.score, outcome)),
                            !.messageTs = messageTs]
        IN  /\ messageTs = Null => ~logFails
            /\ Fault(logFails)
            /\ slack_alerts' =
                 IF logged
                   THEN Append(slack_alerts,
                               [lead_id |-> savedLead.id, slack_message_ts |-> messageTs,
                                score_at_send |-> run.score])
                   ELSE slack_alerts
            /\ run' = IF messageTs = Null
                        THEN NextItem([called EXCEPT !.errorCount = run.errorCount + 1])
                        ELSE [called EXCEPT !.alertedLeadsCount = run.alertedLeadsCount + 1,
                                            !.pc = "sync_threshold"]
    /\ UNCHANGED <<interactions, env, now, leads, runs, sinceBelow>>

\* lines 183-201: sendNewLeadNotification returns; the alert is logged when it
\* returned a timestamp
SyncNewNotify ==
    /\ run.pc = "sync_new_notify"
    /\ \E outcome \in NotifierOutcomes, logFails \in FaultChoices :
        LET messageTs == NotifierResult(outcome)
            savedLead == run.saved[1]
            logged    == messageTs # Null /\ ~logFails
        IN  /\ messageTs = Null => ~logFails
            /\ Fault(logFails)
            /\ slack_alerts' =
                 IF logged
                   THEN Append(slack_alerts,
                               [lead_id |-> savedLead.id, slack_message_ts |-> messageTs,
                                score_at_send |-> run.score])
                   ELSE slack_alerts
            /\ run' = [run EXCEPT
                         !.dispatched = Append(run.dispatched,
                                               Call("new_lead", savedLead, run.score, outcome)),
                         !.messageTs = messageTs,
                         !.alertedLeadsCount =
                             IF messageTs # Null THEN run.alertedLeadsCount + 1
                                                 ELSE run.alertedLeadsCount,
                         !.pc = "sync_threshold"]
    /\ UNCHANGED <<interactions, env, now, leads, runs, sinceBelow>>

\* lines 205-208: the threshold test
SyncThreshold ==
    /\ run.pc = "sync_threshold"
    /\ run' =
         IF run.saved # <<>> /\ crossedThreshold(run.score, run.originalScore)
           THEN [run EXCEPT !.alertedLeadsCount = run.alertedLeadsCount + 1,
                            !.pc = "sync_high_notify"]
           ELSE NextItem([run EXCEPT !.processedCount = run.processedCount + 1])
    /\ UNCHANGED <<interactions, env, now, leads, slack_alerts, runs, faults, sinceBelow>>

\* lines 211-229: sendHighScoreAlert returns; the alert is logged when it
\* returned a timestamp; the payload is counted as processed
SyncHighNotify ==
    /\ run.pc = "sync_high_notify"
    /\ \E outcome \in NotifierOutcomes, logFails \in FaultChoices :
        LET messageTs == NotifierResult(outcome)
            savedLead == run.saved[1]
            logged    == messageTs # Null /\ ~logFails
        IN  /\ messageTs = Null => ~logFails
            /\ Fault(logFails)
            /\ slack_alerts' =
                 IF logged
                   THEN Append(slack_alerts,
                               [lead_id |-> savedLead.id, slack_message_ts |-> messageTs,
                                score_at_send |-> run.score])
                   ELSE slack_alerts
            /\ sinceBelow' = Track(leads, savedLead.id)
            /\ run' = NextItem([run EXCEPT
                         !.dispatched = Append(run.dispatched,
                                               Call("high_score", savedLead, run.score, outcome)),
                         !.messageTs = messageTs,
                         !.processedCount = run.processedCount + 1])
    /\ UNCHANGED <<interactions, env, now, leads, runs>>

\* ------------------------------------------------------------------------
\* Webhook (webhooks/sharpspring-webhook.ts)
\* ------------------------------------------------------------------------

S_webhookDash == <<"w","e","b","h","o","o","k","-">>

S_webhook_update_alert ==
    <<"w","e","b","h","o","o","k","_","u","p","d","a","t","e","_","a","l","e","r","t">>

S_webhook_notification ==
    <<"w","e","b","h","o","o","k","_","n","o","t","i","f","i","c","a","t","i","o","n">>

RECURSIVE IntToString(_)
\* `${n}` of a non-negative integer
IntToString(n) ==
    IF n < 10 THEN << Digits[n + 1] >>
    ELSE IntToString(n \div 10) \o << Digits[(n % 10) + 1] >>

\* index of the first blank of s, 0 when it has none
FirstBlank(s) ==
    IF \E i \in 1..Len(s) : s[i] = " "
      THEN CHOOSE i \in 1..Len(s) : s[i] = " " /\ \A j \in 1..(i - 1) : s[j] # " "
      ELSE 0

\* nameString.split(' ')[0] || ''
firstNamePart(s) == IF FirstBlank(s) = 0 THEN s ELSE SubSeq(s, 1, FirstBlank(s) - 1)

\* nameString.split(' ').slice(1).join(' ') || ''
lastNamePart(s) == IF FirstBlank(s) = 0 THEN <<>> ELSE SubSeq(s, FirstBlank(s) + 1, Len(s))

\* a primitive property value as a JSON value
Lift(prim) ==
    IF prim = Null THEN JsNull
    ELSE IF prim = Undefined THEN JsUndefined
    ELSE IF prim = NumberValue THEN JsNumber
    ELSE Str(prim)

\* value[key], for a value that is neither null nor undefined
Prop(value, key) ==
    IF value.t # "object" THEN JsUndefined
    ELSE IF \E i \in 1..Len(value.sub) : value.sub[i].key = key
      THEN value.sub[CHOOSE i \in 1..Len(value.sub) : value.sub[i].key = key].val
    ELSE IF key \in DOMAIN value.v THEN Lift(value.v[key])
    ELSE JsUndefined

\* the truthiness of a JSON value (numbers of the model are not 0)
TruthyValue(value) ==
    \/ value.t \in {"object", "number"}
    \/ value.t = "string" /\ value.v # <<>>

\* line 81: ssLead.lead || ssLead
pickedLead(ssLead) ==
    IF TruthyValue(Prop(ssLead, "lead")) THEN Prop(ssLead, "lead") ELSE ssLead

\* lines 97-98: an object with an id, a first name or an email address
looksLikeLead(value) ==
    /\ value.t = "object"
    /\ \/ TruthyValue(Prop(value, "id"))
       \/ TruthyValue(Prop(value, "firstName"))
       \/ TruthyValue(Prop(value, "emailAddress"))

scannedLeadTakingLast(ssLead) ==
    LET lfp  == pickedLead(ssLead)
        hits == { i \in 1..Len(ssLead.sub) : looksLikeLead(ssLead.sub[i].val) }
    IN  IF /\ lfp.t = "object"
           /\ ~TruthyValue(Prop(lfp, "id"))
           /\ ~TruthyValue(Prop(lfp, "firstName"))
           /\ hits # {}
          THEN ssLead.sub[CHOOSE i \in hits : \A j \in hits : i >= j].val
          ELSE lfp

\* lines 92-106: the first property of the payload that looks like a lead
\* replaces a picked object that has neither an id nor a first name
scannedLead(ssLead) ==
    LET lfp  == pickedLead(ssLead)
        hits == { i \in 1..Len(ssLead.sub) : looksLikeLead(ssLead.sub[i].val) }
    IN  IF /\ lfp.t = "object"
           /\ ~TruthyValue(Prop(lfp, "id"))
           /\ ~TruthyValue(Prop(lfp, "firstName"))
           /\ hits # {}
          THEN ssLead.sub[CHOOSE i \in hits : \A j \in hits : i <= j].val
          ELSE lfp

\* lines 109-112: an object with the one key name, or a string
nameOnly(lfp) ==
    \/ /\ lfp.t = "object"
       /\ Cardinality(DOMAIN lfp.v) + Len(lfp.sub) = 1
       /\ TruthyValue(Prop(lfp, "name"))
    \/ lfp.t = "string"

\* line 114: the value that is split
nameString(lfp) == IF lfp.t = "string" THEN lfp ELSE Prop(lfp, "name")

\* the TypeError of line 81 (a property of null or undefined) or of line 115
\* (split on a value that is no string)
normalizationThrows(ssLead) ==
    \/ ssLead.t \in {"null", "undefined"}
    \/ /\ nameOnly(scannedLead(ssLead))
       /\ nameString(scannedLead(ssLead)).t # "string"

leadForProcessingFixedId(ssLead, t) ==
    LET lfp == scannedLead(ssLead) IN
    IF nameOnly(lfp)
      THEN [ id |-> S_webhookDash \o IntToString(0),
             firstName |-> firstNamePart(nameString(lfp).v),
             lastName |-> lastNamePart(nameString(lfp).v),
             emailAddress |-> Null,
             phoneNumber |-> Null ]
      ELSE lfp.v

\* lines 81-127: the lead object that is processed, when nothing threw
leadForProcessing(ssLead, t) ==
    LET lfp == scannedLead(ssLead) IN
    IF nameOnly(lfp)
      THEN [ id |-> S_webhookDash \o IntToString(t),
             firstName |-> firstNamePart(nameString(lfp).v),
             lastName |-> lastNamePart(nameString(lfp).v),
             emailAddress |-> Null,
             phoneNumber |-> Null ]
      ELSE lfp.v

\* line 129: String(leadForProcessing.id || `webhook-${Date.now()}`)
webhookId(lfp, t) ==
    JsString(OrElse(Get(lfp, "id"), S_webhookDash \o IntToString(t)))

\* WebhookHandle, with the check of the secret left out
WebhookHandleAnySecret ==
    /\ CanStart
    /\ Begin(1)
    /\ \E req \in WebhookRequests :
        LET fresh == [Idle EXCEPT !.kind = "webhook", !.req = <<req>>]
            lead  == Prop(req.body, "lead")
            lfp   == leadForProcessing(lead, now')
        IN
        run' =
          IF ~TruthyValue(req.body) \/ ~TruthyValue(lead)
            THEN respond(fresh, 400)
          ELSE IF normalizationThrows(lead)
            THEN [respond(fresh, 200) EXCEPT !.branch = "threw"]
          ELSE [respond(fresh, 200) EXCEPT
                  !.ssLead = lfp, !.ssid = webhookId(lfp, now'),
                  !.pc = IF env.supabase THEN "wh_find" ELSE "done"]
    /\ UNCHANGED <<interactions, env, leads, slack_alerts, faults, sinceBelow>>

\* lines 25-63 and 78-135: the secret and shape checks, the 200 response, then
\* processWebhookLead up to its lookup
WebhookHandle ==
    /\ CanStart
    /\ Begin(1)
    /\ \E req \in WebhookRequests :
        LET fresh == [Idle EXCEPT !.kind = "webhook", !.req = <<req>>]
            lead  == Prop(req.body, "lead")
            lfp   == leadForProcessing(lead, now')
        IN
        run' =
          IF env.secret /\ req.secret # "ok"
            THEN respond(fresh, 403)
          ELSE IF ~TruthyValue(req.body) \/ ~TruthyValue(lead)
            THEN respond(fresh, 400)
          ELSE IF normalizationThrows(lead)
            THEN [respond(fresh, 200) EXCEPT !.branch = "threw"]
          ELSE [respond(fresh, 200) EXCEPT
                  !.ssLead = lfp, !.ssid = webhookId(lfp, now'),
                  !.pc = IF env.supabase THEN "wh_find" ELSE "done"]
    /\ UNCHANGED <<interactions, env, leads, slack_alerts, faults, sinceBelow>>

\* lines 147-186 and 213-221: the lookup, the mapping, the score and the branch
WhFind ==
    /\ run.pc = "wh_find"
    /\ \E f \in FaultChoices :
        /\ Fault(f)
        /\ LET res == findBySharpSpringId(leads, run.ssid, f) IN
           run' =
             IF res.error \notin {"none", "PGRST116"}
               THEN [run EXCEPT !.branch = "find_error", !.pc = "done"]
             ELSE IF scoringThrows(run.ssLead)
               THEN [run EXCEPT !.branch = "threw", !.pc = "done"]
             ELSE IF res.data # <<>>
               THEN [run EXCEPT !.existing = res.data,
                                !.score = calculateInitialScore(run.ssLead),
                                !.originalScore = res.data[1].score,
                                !.branch = "update",
                                !.pc = "wh_update"]
             ELSE [run EXCEPT !.score = calculateInitialScore(run.ssLead),
                              !.branch = "create",
                              !.pc = "wh_insert"]
    /\ UNCHANGED <<interactions, env, now, leads, slack_alerts, runs, sinceBelow>>

\* lines 189-195: supabaseService.updateLead; a saved lead is always alerted
WhUpdate ==
    /\ run.pc = "wh_update"
    /\ \E f \in FaultChoices :
        /\ Fault(f)
        /\ LET existingLead == run.existing[1]
               payload == updatePayload(mapSharpSpringToLead(run.ssLead), existingLead,
                                        run.ssid, run.score, now)
               res == updateLeadRow(leads, existingLead.id, payload, f)
           IN  /\ leads' = res.table
               /\ sinceBelow' = Track(res.table, 0)
               /\ run' =
                    IF res.error # "none"
                      THEN [run EXCEPT !.outcomes = Append(run.outcomes, "update_error"),
                                       !.pc = "done"]
                      ELSE [run EXCEPT !.saved = res.data,
                                       !.storedBefore = leads[existingLead.id].score,
                                       !.outcomes = Append(run.outcomes, "updated"),
                                       !.pc = "wh_high_notify"]
    /\ UNCHANGED <<interactions, env, now, slack_alerts, runs>>

\* the row of slack_alerts written when (messageTs || SLACK_WEBHOOK_URL)
webhookAlertLogScoreBefore(table, lead, messageTs, placeholder, score, fails) ==
    IF (messageTs # Null \/ env.slack) /\ ~fails
      THEN Append(table, [lead_id |-> lead.id,
                          slack_message_ts |-> OrElse(messageTs, placeholder),
                          score_at_send |-> run.originalScore])
      ELSE table

webhookAlertLog(table, lead, messageTs, placeholder, score, fails) ==
    IF (messageTs # Null \/ env.slack) /\ ~fails
      THEN Append(table, [lead_id |-> lead.id,
                          slack_message_ts |-> OrElse(messageTs, placeholder),
                          score_at_send |-> score])
      ELSE table

\* lines 195-209: sendHighScoreAlert returns and the alert is logged
WhHighNotify ==
    /\ run.pc = "wh_high_notify"
    /\ \E outcome \in NotifierOutcomes, logFails \in FaultChoices :
        LET messageTs == NotifierResult(outcome)
            savedLead == run.saved[1]
        IN  /\ logFails => (messageTs # Null \/ env.slack)
            /\ Fault(logFails)
            /\ slack_alerts' = webhookAlertLog(slack_alerts, savedLead, messageTs,
                                               S_webhook_update_alert, run.score, logFails)
            /\ sinceBelow' = Track(leads, savedLead.id)
            /\ run' = [run EXCEPT
                         !.dispatched = Append(run.dispatched,
                                               Call("high_score", savedLead, run.score, outcome)),
                         !.messageTs = messageTs,
                         !.pc = "wh_followup"]
    /\ UNCHANGED <<interactions, env, now, leads, runs>>

\* WhInsert, with the new-lead notification left out
WhInsertSilent ==
    /\ run.pc = "wh_insert"
    /\ \E f \in FaultChoices :
        /\ Fault(f)
        /\ LET payload == createPayload(mapSharpSpringToLead(run.ssLead),
                                        run.ssid, run.score, now)
               res == insertLead(leads, payload, f)
           IN  /\ leads' = res.table
               /\ sinceBelow' = Track(res.table, 0)
               /\ run' =
                    IF res.error # "none"
                      THEN [run EXCEPT !.outcomes = Append(run.outcomes, "insert_error"),
                                       !.pc = "done"]
                      ELSE [run EXCEPT !.saved = res.data,
                                       !.outcomes = Append(run.outcomes, "inserted"),
                                       !.pc = "wh_followup"]
    /\ UNCHANGED <<interactions, env, now, slack_alerts, runs>>

\* lines 224-230: supabaseService.createLead, then the new-lead notification
WhInsert ==
    /\ run.pc = "wh_insert"
    /\ \E f \in FaultChoices :
        /\ Fault(f)
        /\ LET payload == createPayload(mapSharpSpringToLead(run.ssLead),
                                        run.ssid, run.score, now)
               res == insertLead(leads, payload, f)
           IN  /\ leads' = res.table
               /\ sinceBelow' = Track(res.table, 0)
               /\ run' =
                    IF res.error # "none"
                      THEN [run EXCEPT !.outcomes = Append(run.outcomes, "insert_error"),
                                       !.pc = "done"]
                      ELSE [run EXCEPT !.saved = res.data,
                                       !.outcomes = Append(run.outcomes, "inserted"),
                                       !.pc = "wh_new_notify"]
    /\ UNCHANGED <<interactions, env, now, slack_alerts, runs>>

\* lines 230-244: sendNewLeadNotification returns and the notification is logged
WhNewNotify ==
    /\ run.pc = "wh_new_notify"
    /\ \E outcome \in NotifierOutcomes, logFails \in FaultChoices :
        LET messageTs == NotifierResult(outcome)
            savedLead == run.saved[1]
        IN  /\ logFails => (messageTs # Null \/ env.slack)
            /\ Fault(logFails)
            /\ slack_alerts' = webhookAlertLog(slack_alerts, savedLead, messageTs,
                                               S_webhook_notification, run.score, logFails)
            /\ run' = [run EXCEPT
                         !.dispatched = Append(run.dispatched,
                                               Call("new_lead", savedLead, run.score, outcome)),
                         !.messageTs = messageTs,
                         !.pc = "wh_followup"]
    /\ UNCHANGED <<interactions, env, now, leads, runs, sinceBelow>>

\* lines 252-303: the AI follow-up (OpenAI, SendGrid, table messages); its
\* failures are caught and it touches neither leads nor slack_alerts
WhFollowUp ==
    /\ run.pc = "wh_followup"
    /\ run' = [run EXCEPT !.pc = "done"]
    /\ UNCHANGED <<interactions, env, now, leads, slack_alerts, runs, faults, sinceBelow>>

Webhook ==
    \/ WebhookHandle
    \/ WhFind
    \/ WhUpdate
    \/ WhHighNotify
    \/ WhInsert
    \/ WhNewNotify
    \/ WhFollowUp

\* ------------------------------------------------------------------------
\* Interaction logging (server.ts, POST /api/log-interaction)
\* ------------------------------------------------------------------------

S_call == <<"c","a","l","l">>

S_meeting == <<"m","e","e","t","i","n","g">>

S_demo == <<"d","e","m","o">>

S_sms == <<"s","m","s">>

S_email == <<"e","m","a","i","l">>

S_note == <<"n","o","t","e">>

S_sharpspring_id == <<"s","h","a","r","p","s","p","r","i","n","g","_","i","d">>

S_positive_sentiment ==
    <<"p","o","s","i","t","i","v","e"," ","s","e","n","t","i","m","e","n","t">>

S_interested == <<"i","n","t","e","r","e","s","t","e","d">>

S_next_steps_scheduled ==
    <<"n","e","x","t"," ","s","t","e","p","s"," ","s","c","h","e","d","u","l","e","d">>

S_negative_sentiment ==
    <<"n","e","g","a","t","i","v","e"," ","s","e","n","t","i","m","e","n","t">>

S_not_interested == <<"n","o","t"," ","i","n","t","e","r","e","s","t","e","d">>

S_objections == <<"o","b","j","e","c","t","i","o","n","s">>

S_sent_proposal == <<"s","e","n","t"," ","p","r","o","p","o","s","a","l">>

S_requested_quote == <<"r","e","q","u","e","s","t","e","d"," ","q","u","o","t","e">>

\* typeAdjustment, with the type compared as it was sent
typeAdjustmentCaseSensitive(interactionType) ==
    LET t == interactionType IN
    CASE t = S_call -> 10
      [] t = S_meeting -> 15
      [] t = S_demo -> 25
      [] t = S_sms \/ t = S_email -> 5
      [] t = S_note -> 2
      [] OTHER -> 1

\* the switch on interactionType.toLowerCase()
typeAdjustment(interactionType) ==
    LET t == toLowerCase(interactionType) IN
    CASE t = S_call -> 10
      [] t = S_meeting -> 15
      [] t = S_demo -> 25
      [] t = S_sms \/ t = S_email -> 5
      [] t = S_note -> 2
      [] OTHER -> 1

\* the keyword adjustments of a non-empty AI summary
summaryAdjustment(aiSummary) ==
    IF ~Truthy(aiSummary) THEN 0
    ELSE LET summaryLower == toLowerCase(aiSummary) IN
         (IF \/ includes(summaryLower, S_positive_sentiment)
             \/ includes(summaryLower, S_interested)
             \/ includes(summaryLower, S_next_steps_scheduled) THEN 10 ELSE 0)
         - (IF \/ includes(summaryLower, S_negative_sentiment)
               \/ includes(summaryLower, S_not_interested)
               \/ includes(summaryLower, S_objections) THEN 5 ELSE 0)
         + (IF \/ includes(summaryLower, S_sent_proposal)
               \/ includes(summaryLower, S_requested_quote) THEN 15 ELSE 0)

recalculateScoreOnInteraction(currentScore, interactionType, aiSummary) ==
    Max(0, currentScore + typeAdjustment(interactionType) + summaryAdjustment(aiSummary))

\* .from('leads').select('*').eq('email', email).maybeSingle()
findByEmail(table, email, fails) ==
    LET hits == { i \in 1..Len(table) : table[i].email = email } IN
    IF fails \/ Cardinality(hits) > 1 THEN [data |-> <<>>, error |-> "other"]
    ELSE IF Cardinality(hits) = 1
      THEN [data |-> << table[CHOOSE i \in hits : TRUE] >>, error |-> "none"]
      ELSE [data |-> <<>>, error |-> "none"]

\* interactionText?.trim() is empty
blank(text) == \A i \in 1..Len(text) : text[i] = " "

S_Demo == <<"D","e","m","o">>

S_went_well == <<"w","e","n","t"," ","w","e","l","l">>

S_phone == <<"p","h","o","n","e">>

\* the bodies of the requests
InteractionRequests ==
    { [leadIdentifier |-> L1, identifierType |-> S_sharpspring_id,
       interactionType |-> S_Demo, summary |-> S_went_well],
      [leadIdentifier |-> L2, identifierType |-> S_sharpspring_id,
       interactionType |-> S_call, summary |-> S_went_well],
      [leadIdentifier |-> EmailB, identifierType |-> S_email,
       interactionType |-> S_note, summary |-> S_went_well],
      [leadIdentifier |-> L1, identifierType |-> S_sharpspring_id,
       interactionType |-> S_call, summary |-> <<>>],
      [leadIdentifier |-> L1, identifierType |-> S_phone,
       interactionType |-> S_call, summary |-> S_went_well] }

\* what the completion can carry: nothing, or a summary
AiSummaries == { Null, <<"N","o","t"," ","i","n","t","e","r","e","s","t","e","d">> }

\* lines 23-42: validation, then the lookup is issued
IaRequestAnyKind ==
    /\ CanStart
    /\ Begin(1)
    /\ \E req \in InteractionRequests :
        run' =
          IF \/ ~Truthy(req.leadIdentifier) \/ ~Truthy(req.identifierType)
             \/ ~Truthy(req.interactionType) \/ ~Truthy(req.summary)
            THEN respond([Idle EXCEPT !.kind = "interaction"], 400)
          ELSE [Idle EXCEPT !.kind = "interaction", !.req = <<req>>, !.pc = "ia_find"]
    /\ UNCHANGED <<env, leads, slack_alerts, interactions, faults, sinceBelow>>

IaRequest ==
    /\ CanStart
    /\ Begin(1)
    /\ \E req \in InteractionRequests :
        run' =
          IF \/ ~Truthy(req.leadIdentifier) \/ ~Truthy(req.identifierType)
             \/ ~Truthy(req.interactionType) \/ ~Truthy(req.summary)
            THEN respond([Idle EXCEPT !.kind = "interaction"], 400)
          ELSE IF req.identifierType # S_email /\ req.identifierType # S_sharpspring_id
            THEN respond([Idle EXCEPT !.kind = "interaction"], 400)
          ELSE [Idle EXCEPT !.kind = "interaction", !.req = <<req>>, !.pc = "ia_find"]
    /\ UNCHANGED <<env, leads, slack_alerts, interactions, faults, sinceBelow>>

\* lines 38-52: the lookup returns; summarizeInteraction is entered
IaFind ==
    /\ run.pc = "ia_find"
    /\ \E f \in FaultChoices :
        /\ Fault(f)
        /\ LET req == run.req[1]
               res == IF req.identifierType = S_email
                        THEN findByEmail(leads, req.leadIdentifier, f)
                        ELSE findBySharpSpringId(leads, req.leadIdentifier, f)
           IN  run' =
                 IF res.error \notin {"none", "PGRST116"}
                   THEN respond([run EXCEPT !.pc = "done"], 500)
                 ELSE IF res.data = <<>>
                   THEN respond([run EXCEPT !.pc = "done"], 404)
                 ELSE IF ~blank(req.summary) /\ ~env.openai
                   THEN respond([run EXCEPT !.existing = res.data, !.pc = "done"], 500)
                 ELSE [run EXCEPT !.existing = res.data,
                                  !.originalScore = res.data[1].score,
                                  !.pc = "ia_summarize"]
    /\ UNCHANGED <<env, now, leads, slack_alerts, interactions, runs, sinceBelow>>

\* lines 52-63: the summary comes back; addInteraction is issued
IaSummarize ==
    /\ run.pc = "ia_summarize"
    /\ \E summary \in AiSummaries :
        /\ blank(run.req[1].summary) => summary = Null
        /\ run' = [run EXCEPT !.aiSummary = summary, !.pc = "ia_add"]
    /\ UNCHANGED <<env, now, leads, slack_alerts, interactions, runs, faults, sinceBelow>>

\* lines 63-73: the insert into interactions returns; the new score is computed
IaAdd ==
    /\ run.pc = "ia_add"
    /\ \E f \in FaultChoices :
        /\ Fault(f)
        /\ IF f
             THEN /\ interactions' = interactions
                  /\ run' = respond([run EXCEPT !.pc = "done"], 500)
             ELSE /\ interactions' = Append(interactions,
                                            [lead_id |-> run.existing[1].id,
                                             type |-> run.req[1].interactionType,
                                             summary |-> run.req[1].summary,
                                             summary_ai |-> run.aiSummary])
                  /\ run' = [run EXCEPT
                               !.score = recalculateScoreOnInteraction(
                                           run.existing[1].score,
                                           run.req[1].interactionType, run.aiSummary),
                               !.pc = "ia_update"]
    /\ UNCHANGED <<env, now, leads, slack_alerts, runs, sinceBelow>>

\* IaUpdate, with the threshold test made against the score the update
\* replaced
IaUpdateComparingStored ==
    /\ run.pc = "ia_update"
    /\ \E f \in FaultChoices :
        /\ Fault(f)
        /\ LET lead == run.existing[1]
               res == updateLeadRow(leads, lead.id,
                                    [score |-> run.score, updated_at |-> now], f)
           IN  /\ leads' = res.table
               /\ sinceBelow' = Track(res.table, 0)
               /\ run' =
                    IF res.error # "none"
                      THEN respond([run EXCEPT !.pc = "done"], 500)
                    ELSE IF crossedThreshold(run.score, leads[lead.id].score)
                      THEN [run EXCEPT !.saved = res.data,
                                       !.storedBefore = leads[lead.id].score,
                                       !.pc = "ia_notify"]
                    ELSE respond([run EXCEPT !.saved = res.data,
                                              !.storedBefore = leads[lead.id].score,
                                              !.pc = "done"], 200)
    /\ UNCHANGED <<env, now, slack_alerts, interactions, runs>>

\* IaUpdate, with the threshold test made before the result of the update is
\* looked at
IaUpdateAlertingFirst ==
    /\ run.pc = "ia_update"
    /\ \E f \in FaultChoices :
        /\ Fault(f)
        /\ LET lead == run.existing[1]
               res == updateLeadRow(leads, lead.id,
                                    [score |-> run.score, updated_at |-> now], f)
           IN  /\ leads' = res.table
               /\ sinceBelow' = Track(res.table, 0)
               /\ run' =
                    IF crossedThreshold(run.score, run.originalScore)
                      THEN [run EXCEPT !.saved = IF res.error # "none" THEN run.existing
                                                                        ELSE res.data,
                                       !.storedBefore = leads[lead.id].score,
                                       !.pc = "ia_notify"]
                    ELSE IF res.error # "none"
                      THEN respond([run EXCEPT !.pc = "done"], 500)
                    ELSE respond([run EXCEPT !.saved = res.data,
                                              !.storedBefore = leads[lead.id].score,
                                              !.pc = "done"], 200)
    /\ UNCHANGED <<env, now, slack_alerts, interactions, runs>>

\* lines 73-93: updateLeadScoreAndNotes returns; the threshold test
IaUpdate ==
    /\ run.pc = "ia_update"
    /\ \E f \in FaultChoices :
        /\ Fault(f)
        /\ LET lead == run.existing[1]
               res == updateLeadRow(leads, lead.id,
                                    [score |-> run.score, updated_at |-> now], f)
           IN  /\ leads' = res.table
               /\ sinceBelow' = Track(res.table, 0)
               /\ run' =
                    IF res.error # "none"
                      THEN respond([run EXCEPT !.pc = "done"], 500)
                    ELSE IF crossedThreshold(run.score, run.originalScore)
                      THEN [run EXCEPT !.saved = res.data,
                                       !.storedBefore = leads[lead.id].score,
                                       !.pc = "ia_notify"]
                    ELSE respond([run EXCEPT !.saved = res.data,
                                              !.storedBefore = leads[lead.id].score,
                                              !.pc = "done"], 200)
    /\ UNCHANGED <<env, now, slack_alerts, interactions, runs>>

\* lines 84-93: sendLeadAlert returns; the 200 response
IaNotify ==
    /\ run.pc = "ia_notify"
    /\ \E outcome \in NotifierOutcomes :
        /\ sinceBelow' = Track(leads, run.saved[1].id)
        /\ run' = respond([run EXCEPT
                             !.dispatched = Append(run.dispatched,
                                 Call("high_score", run.saved[1], run.score, outcome)),
                             !.pc = "done"], 200)
    /\ UNCHANGED <<env, now, leads, slack_alerts, interactions, runs, faults>>

Interaction ==
    \/ IaRequest
    \/ IaFind
    \/ IaSummarize
    \/ IaAdd
    \/ IaUpdate
    \/ IaNotify

Sync ==
    \/ SyncStart
    \/ SyncItem
    \/ SyncFind
    \/ SyncUpdate
    \/ SyncInsert
    \/ SyncNewNotify
    \/ SyncThreshold
    \/ SyncHighNotify

Next == Sync \/ Webhook \/ Interaction

Spec == Init /\ [][Next]_vars

\* ------------------------------------------------------------------------
\* The scorer on its own: calculateInitialScore applied to one lead
\* ------------------------------------------------------------------------

S_New == <<"N","e","w">>

S_VPofSales == <<"V","P"," ","o","f"," ","S","a","l","e","s">>

S_CEOandOwner == <<"C","E","O"," ","a","n","d"," ","O","w","n","e","r">>

S_atCompetitor == <<"z","@","c","o","m","p","e","t","i","t","o","r",".","c","o","m">>

S_Within3or6 == <<"W","i","t","h","i","n"," ","3"," ","m","o","n","t","h","s",","," ","o","r"," ","w","i","t","h","i","n"," ","6"," ","m","o","n","t","h","s">>

ScoreStatuses == { Undefined, S_QualifiedLead, S_New, <<"c","o","n","s","t","r","u","c","t","o","r">> }

ScoreTitles == { Undefined, S_VPofSales, S_CEOandOwner, NumberValue }

ScoreEmails == { Undefined, EmailA, S_atCompetitor }

ScorePhones == { Undefined, <<"5","5","5">> }

ScoreCompanies == { Undefined, <<"A","c","m","e">> }

ScoreTimeFrames == { Undefined, S_within1, S_Within3or6, <<"n","e","x","t"," ","y","e","a","r">> }

ScoreNatives == { Undefined, <<"4","0">>, <<"-","1","5">>, <<"a","b","c">> }

ScoreFlags == { Undefined, S_1 }

\* the leads the scorer is applied to
ScoreInputs ==
    { [ leadStatus |-> st, title |-> ti, emailAddress |-> em, phoneNumber |-> ph,
        mobilePhoneNumber |-> mo, companyName |-> co,
        time_frame_5eceb4e7d9474 |-> tf, leadScore |-> ls,
        isCustomer |-> cu, isUnsubscribed |-> un ] :
        st \in ScoreStatuses, ti \in ScoreTitles, em \in ScoreEmails,
        ph \in ScorePhones, mo \in ScorePhones, co \in ScoreCompanies,
        tf \in ScoreTimeFrames, ls \in ScoreNatives,
        cu \in ScoreFlags, un \in ScoreFlags }

InitScore ==
    /\ env = CHOOSE e \in Envs : e.slack /\ e.supabase /\ e.openai /\ e.secret
    /\ now = 1
    /\ leads = <<>>
    /\ slack_alerts = <<>>
    /\ interactions = <<>>
    /\ run \in { [Idle EXCEPT !.kind = "score", !.pc = "score_call", !.ssLead = l] :
                    l \in ScoreInputs }
    /\ runs = 0
    /\ faults = 0
    /\ sinceBelow = <<>>

\* the call returns a number or NaN, or throws
ScoreCall ==
    /\ run.pc = "score_call"
    /\ run' =
         IF scoringThrows(run.ssLead)
           THEN [run EXCEPT !.pc = "score_threw"]
         ELSE IF scoreIsNaN(run.ssLead)
           THEN [run EXCEPT !.pc = "score_returned", !.returned = NoNum]
         ELSE [run EXCEPT !.pc = "score_returned",
                          !.returned = Num(calculateInitialScore(run.ssLead))]
    /\ UNCHANGED <<interactions, env, now, leads, slack_alerts, runs, faults, sinceBelow>>

NextScore == ScoreCall

SpecScore == InitScore /\ [][NextScore]_vars

\* ------------------------------------------------------------------------
\* The scorer on its own: recalculateScoreOnInteraction applied to one
\* interaction
\* ------------------------------------------------------------------------

S_Not_interested == <<"N","o","t"," ","i","n","t","e","r","e","s","t","e","d">>

RecalcScores == { -20, 0, 3, 70, 95 }

RecalcTypes ==
    { S_call, <<"C","a","l","l">>, <<"M","E","E","T","I","N","G">>, S_Demo, S_sms, S_email, S_note,
      <<"c","h","a","t">>, <<>> }

RecalcSummaries ==
    { Null, <<>>, S_went_well, S_Not_interested, S_objections,
      <<"I","n","t","e","r","e","s","t","e","d",","," ","r","e","q","u","e","s","t","e","d"," ","q","u","o","t","e">>,
      <<"P","o","s","i","t","i","v","e"," ","s","e","n","t","i","m","e","n","t",";"," ","n","e","x","t"," ","s","t","e","p","s"," ","s","c","h","e","d","u","l","e","d">>,
      <<"S","e","n","t"," ","p","r","o","p","o","s","a","l"," ","a","n","d"," ","r","e","q","u","e","s","t","e","d"," ","q","u","o","t","e",","," ","o","b","j","e","c","t","i","o","n","s">> }

InitRecalc ==
    /\ env = CHOOSE e \in Envs : e.slack /\ e.supabase /\ e.openai /\ e.secret
    /\ now = 1
    /\ leads = <<>>
    /\ slack_alerts = <<>>
    /\ interactions = <<>>
    /\ run \in { [Idle EXCEPT !.kind = "recalc", !.pc = "recalc_call", !.score = c,
                               !.req = << [interactionType |-> t] >>, !.aiSummary = a] :
                    c \in RecalcScores, t \in RecalcTypes, a \in RecalcSummaries }
    /\ runs = 0
    /\ faults = 0
    /\ sinceBelow = <<>>

RecalcCall ==
    /\ run.pc = "recalc_call"
    /\ run' = [run EXCEPT
                 !.pc = "recalc_returned",
                 !.returned = Num(recalculateScoreOnInteraction(run.score,
                                                                run.req[1].interactionType,
                                                                run.aiSummary))]
    /\ UNCHANGED <<interactions, env, now, leads, slack_alerts, runs, faults, sinceBelow>>

NextRecalc == RecalcCall

SpecRecalc == InitRecalc /\ [][NextRecalc]_vars

\* ------------------------------------------------------------------------
\* The normalization of processWebhookLead on its own (lines 78-129)
\* ------------------------------------------------------------------------

S_Karli == KarliBody.name

DisplayNames ==
    { <<>>, S_Karli, <<"A","n","n"," ","L","e","e">>, <<"M","a","r","y"," ","A","n","n"," ","L","e","e">>,
      <<" ","K","a","r","l","i">>, <<"A","n","n"," "," ","L","e","e">>, <<"A","n","n","\t","L","e","e">> }

\* what processWebhookLead is called with: a name as a string
NormalizeStrings == { Str(n) : n \in DisplayNames }

\* { data: { id: 'L2' } }
NestedLead == [key |-> "data", val |-> Obj([id |-> L2], <<>>)]

\* payloads with nested objects: three entries of which the second and the
\* third look like a lead; a lead two levels down, bare and under a lead key;
\* an id, a first name or a string under the lead key next to a nested lead
ScanFirst ==
    Obj(<<>>, << [key |-> "account", val |-> Obj([companyName |-> S_Karli], <<>>)],
                 [key |-> "contact", val |-> Obj([emailAddress |-> EmailB], <<>>)],
                 [key |-> "owner", val |-> Obj([id |-> L1], <<>>)] >>)

TwoLevels == Obj(<<>>, << [key |-> "event", val |-> Obj(<<>>, << NestedLead >>)] >>)

NestedObjects ==
    { ScanFirst, TwoLevels, Wrapped(Obj(<<>>, << NestedLead >>)),
      Obj([id |-> L1], << NestedLead >>),
      Obj([firstName |-> S_Karli], << NestedLead >>),
      Obj(<<>>, << [key |-> "lead", val |-> Str(S_Karli)], NestedLead >>),
      Obj([companyName |-> S_Karli], << NestedLead >>) }

\* a name as the one key of an object and under a lead key; null, undefined
\* and a number; objects with and without an id; a name that is no string; a
\* lead one key down
NormalizeObjects ==
    { Obj([name |-> n], <<>>) : n \in DisplayNames }
    \cup { Wrapped(Obj([name |-> n], <<>>)) : n \in DisplayNames }
    \cup { JsNull, JsUndefined, JsNumber,
           Obj(<<>>, <<>>),
           Obj([id |-> L1], <<>>),
           Obj([name |-> NumberValue], <<>>),
           Obj([name |-> S_Karli, emailAddress |-> EmailA], <<>>),
           Obj(WithId(HotBody, L1), <<>>),
           Wrapped(Obj(WithId(WarmBody, L2), <<>>)),
           Obj(<<>>, << [key |-> "data", val |-> Obj([emailAddress |-> EmailB], <<>>)] >>) }
    \cup NestedObjects

\* values of Date.now()
NormalizeTimes == { 1, 7, 42, 1700 }

InitNormalize ==
    /\ env = CHOOSE e \in Envs : e.slack /\ e.supabase /\ e.openai /\ e.secret
    /\ now \in NormalizeTimes
    /\ leads = <<>>
    /\ slack_alerts = <<>>
    /\ interactions = <<>>
    /\ \/ \E x \in NormalizeStrings :
             run = [Idle EXCEPT !.kind = "normalize", !.pc = "normalize_call", !.req = <<x>>]
       \/ \E x \in NormalizeObjects :
             run = [Idle EXCEPT !.kind = "normalize", !.pc = "normalize_call", !.req = <<x>>]
    /\ runs = 0
    /\ faults = 0
    /\ sinceBelow = <<>>

\* lines 81-129: the lead object and the identifier, or a TypeError
NormalizeCall ==
    /\ run.pc = "normalize_call"
    /\ run' =
         IF normalizationThrows(run.req[1])
           THEN [run EXCEPT !.pc = "normalize_threw"]
           ELSE [run EXCEPT !.pc = "normalize_returned",
                            !.ssLead = leadForProcessing(run.req[1], now),
                            !.ssid = webhookId(leadForProcessing(run.req[1], now), now)]
    /\ UNCHANGED <<interactions, env, now, leads, slack_alerts, runs, faults, sinceBelow>>

NextNormalize == NormalizeCall

SpecNormalize == InitNormalize /\ [][NextNormalize]_vars

\* ------------------------------------------------------------------------
\* Two requests in flight for one external identifier.  Node runs one
\* handler until its next await, so the steps of the two runs interleave at
\* the store and Notifier calls, which are the actions above; run is the one
\* whose step is taken next, run.parked holds the other.
\* ------------------------------------------------------------------------

\* the lead of L1 as a sync of WarmBody stored it, with the score 75
StoredWarm == createPayload(mapSharpSpringToLead(WithId(WarmBody, L1)), L1, 75, 0)

FullEnv == CHOOSE e \in Envs : e.slack /\ e.supabase /\ e.openai /\ e.secret

\* a webhook delivery that was acknowledged and is about to look its lead up
\* (WebhookHandle), a sync run about to look up its one payload (SyncItem)
\* and an interaction request about to look its lead up (IaRequest)
RaceStarts ==
    { [Idle EXCEPT !.kind = "webhook", !.responses = <<200>>, !.ssLead = p,
                   !.ssid = L1, !.pc = "wh_find"] :
        p \in { WithId(HotBody, L1) } }
    \cup { [Idle EXCEPT !.kind = "sync", !.fetched = 1, !.idx = 1, !.ssLead = p,
                        !.ssid = L1, !.score = calculateInitialScore(p),
                        !.pc = "sync_find"] :
             p \in { WithId(HotBody, L1), WithId(WarmBody, L1) } }
    \cup { [Idle EXCEPT !.kind = "interaction", !.pc = "ia_find",
                        !.req = << [leadIdentifier |-> L1, identifierType |-> S_sharpspring_id,
                                    interactionType |-> S_Demo, summary |-> S_went_well] >>] }

InitRace ==
    /\ env = FullEnv
    /\ now = 1
    /\ leads \in { <<>>, insertLead(<<>>, StoredWarm, FALSE).table }
    /\ slack_alerts = <<>>
    /\ interactions = <<>>
    /\ \E first \in RaceStarts, second \in RaceStarts :
          run = [first EXCEPT !.parked = <<second>>]
    /\ runs = 2
    /\ faults = 0
    /\ sinceBelow = <<>>

\* the running handler reaches an await or returns, and the other one goes on
Switch ==
    /\ run.parked # <<>>
    /\ run.parked[1].pc # "done"
    /\ run' = [run.parked[1] EXCEPT !.parked = << [run EXCEPT !.parked = <<>>] >>]
    /\ UNCHANGED <<interactions, env, now, leads, slack_alerts, runs, faults, sinceBelow>>

NextRace ==
    \/ Switch
    \/ SyncFind \/ SyncUpdate \/ SyncInsert \/ SyncNewNotify \/ SyncThreshold \/ SyncHighNotify
    \/ WhFind \/ WhUpdate \/ WhHighNotify \/ WhInsert \/ WhNewNotify \/ WhFollowUp
    \/ IaFind \/ IaSummarize \/ IaAdd \/ IaUpdate \/ IaNotify

SpecRace == InitRace /\ [][NextRace]_vars

\* ------------------------------------------------------------------------
\* Properties
\* ------------------------------------------------------------------------

\* calls of the Notifier of the given kind made for the current payload
Count(kind) ==
    Cardinality({ i \in 1..Len(run.dispatched) : run.dispatched[i].kind = kind })

HighAlerts == Count("high_score")

NewLeadNotifications == Count("new_lead")

Inserted == \E i \in 1..Len(run.outcomes) : run.outcomes[i] = "inserted"

\* the sync loop has left a payload behind, whose bookkeeping run still holds
SyncPayloadFinished ==
    run.kind = "sync" /\ run.pc \in {"sync_item", "done"} /\ run.items # <<>>

WebhookFinished == run.kind = "webhook" /\ run.pc = "done"

\* C1: in a bulk-sync run, a payload whose lead was saved has a high-score
\* alert dispatched exactly when the new score is at or above the threshold
\* and the score stored before the write (0 for a new lead) was below it.
C1_SyncAlertIffCrossing ==
    (SyncPayloadFinished /\ run.saved # <<>>) =>
        /\ HighAlerts <= 1
        /\ HighAlerts = 1 <=>
             (run.score >= LEAD_SCORE_THRESHOLD /\ run.storedBefore < LEAD_SCORE_THRESHOLD)

C1_Witness ==
    /\ SyncPayloadFinished
    /\ run.branch = "update"
    /\ run.saved # <<>>
    /\ run.storedBefore = 75
    /\ run.score = 110
    /\ HighAlerts = 1

\* C2: a webhook run that updates an existing lead dispatches a high-score
\* alert only if the new score is at or above the threshold and the stored
\* score was below it.
C2_WebhookUpdateAlertOnlyOnCrossing ==
    (run.kind = "webhook" /\ run.branch = "update" /\ HighAlerts >= 1) =>
        (run.score >= LEAD_SCORE_THRESHOLD /\ run.storedBefore < LEAD_SCORE_THRESHOLD)

\* C3: a webhook run that creates a lead with a score at or above the
\* threshold dispatches a new-lead notification and a high-score alert.
C3_WebhookCreateAboveThresholdAlerts ==
    (WebhookFinished /\ Inserted /\ run.score >= LEAD_SCORE_THRESHOLD) =>
        (NewLeadNotifications >= 1 /\ HighAlerts >= 1)

\* C4: in sync and webhook runs, a payload that created a lead has exactly one
\* new-lead notification dispatched, whatever the score, and a payload that
\* took the update branch has none.
C4_NewLeadNotificationOncePerCreate ==
    run.kind \in {"sync", "webhook"} =>
        /\ NewLeadNotifications <= 1
        /\ run.branch = "update" => NewLeadNotifications = 0
        /\ ((SyncPayloadFinished \/ WebhookFinished) /\ Inserted) =>
              NewLeadNotifications = 1

C4_Witness ==
    /\ WebhookFinished
    /\ Inserted
    /\ run.score < LEAD_SCORE_THRESHOLD
    /\ NewLeadNotifications = 1
    /\ HighAlerts = 0

\* C5: for every lead, between two high-score alerts its stored score was
\* below the threshold at some point: no lead has two alerts since its stored
\* score was last below the threshold.
C5_AtMostOneAlertPerCrossing ==
    \A i \in 1..Len(sinceBelow) : sinceBelow[i] <= 1

MergedFields == {"name", "email", "phone", "tags", "last_contacted"}

\* a sync or webhook payload has updated an existing lead
UpdateSaved ==
    /\ run.kind \in {"sync", "webhook"}
    /\ run.branch = "update"
    /\ run.saved # <<>>

\* C6: after an update, each of name, email, phone, tags and last_contacted
\* holds the stored value if the normalized incoming value is null or
\* undefined and the incoming value otherwise; an email the payload omits
\* leaves the stored email, an email it carries replaces it.
C6_MergeKeepsStoredWhenIncomingNull ==
    UpdateSaved =>
        LET incoming == mapSharpSpringToLead(run.ssLead)
            before   == run.existing[1]
            after    == leads[run.saved[1].id]
            email    == Get(run.ssLead, "emailAddress")
        IN  /\ \A k \in MergedFields :
                 after[k] = IF incoming[k] = Null \/ incoming[k] = Undefined
                              THEN before[k] ELSE incoming[k]
            /\ after.email = IF email = Undefined \/ email = Null
                               THEN before.email ELSE email

C6_Witness ==
    /\ UpdateSaved
    /\ Get(run.ssLead, "emailAddress") = Null
    /\ run.existing[1].email = EmailA
    /\ leads[run.saved[1].id].email = EmailA
    /\ run.existing[1].tags # Null
    /\ leads[run.saved[1].id].tags = run.existing[1].tags
    /\ leads[run.saved[1].id].name # run.existing[1].name

\* C7: after an update, every field other than name, email, phone, tags and
\* last_contacted holds the new normalized value (the score the new score),
\* a null incoming value included.
C7_OtherFieldsOverwritten ==
    UpdateSaved =>
        LET incoming == mapSharpSpringToLead(run.ssLead)
            after    == leads[run.saved[1].id]
        IN  /\ \A k \in (DOMAIN incoming \ MergedFields) \ {"score"} :
                 after[k] = incoming[k]
            /\ after.score = calculateInitialScore(run.ssLead)

C7_Witness ==
    /\ UpdateSaved
    /\ run.existing[1].company_name # Null
    /\ run.existing[1].ss_lead_score # NoNum
    /\ leads[run.saved[1].id].company_name = Null
    /\ leads[run.saved[1].id].ss_lead_score = NoNum
    /\ leads[run.saved[1].id].is_qualified = FALSE

\* rows of the store with the external identifier ssid
RowsWith(ssid) == { i \in 1..Len(leads) : leads[i].sharpspring_id = ssid }

\* C8: the store holds at most one lead per external identifier; a sync or
\* webhook payload takes the create branch only when the store has no lead
\* with its identifier, and the update branch only when it has one, and an
\* update creates nothing.
C8_OneLeadPerExternalId ==
    /\ \A i, j \in 1..Len(leads) :
          leads[i].sharpspring_id = leads[j].sharpspring_id => i = j
    /\ run.pc \in {"sync_insert", "wh_insert"} => RowsWith(run.ssid) = {}
    /\ run.pc \in {"sync_update", "wh_update"} =>
          RowsWith(run.ssid) = {run.existing[1].id}
    /\ (run.kind \in {"sync", "webhook"} /\ run.branch = "update") => ~Inserted

C8_Witness ==
    /\ UpdateSaved
    /\ run.ssid = L1
    /\ Cardinality(RowsWith(L1)) = 1
    /\ leads[run.saved[1].id].created_at < leads[run.saved[1].id].updated_at

\* payloads of the batch that ended with the given result
ItemsThat(result) == { i \in 1..Len(run.items) : run.items[i] = result }

\* C9: when a sync run ends, every payload of the batch has been taken up,
\* the error count is the number of payloads whose lead was not saved and the
\* processed count the number of those whose lead was.
C9_SyncErrorsIsolated ==
    (run.kind = "sync" /\ run.pc = "done") =>
        /\ Len(run.items) = run.fetched
        /\ run.errorCount = Len(run.items) - Cardinality(ItemsThat("saved"))
        /\ run.processedCount = Cardinality(ItemsThat("saved"))

C9_Witness ==
    /\ run.kind = "sync"
    /\ run.pc = "done"
    /\ run.fetched = 2
    /\ run.items[1] \in {"find_error", "write_error"}
    /\ run.items[2] = "saved"
    /\ run.errorCount = 1
    /\ run.processedCount = 1

\* C10: a webhook request has exactly one response at any time, and whenever
\* the lookup, a write or a notification of its payload is pending or done
\* that response is the 200.
C10_WebhookRespondsOnceBeforeProcessing ==
    run.kind = "webhook" =>
        /\ Len(run.responses) = 1
        /\ (\/ run.pc # "done"
            \/ run.branch # "none"
            \/ run.outcomes # <<>>
            \/ run.dispatched # <<>>) => run.responses = <<200>>

C10_Witness ==
    /\ WebhookFinished
    /\ run.responses = <<200>>
    /\ \E i \in 1..Len(run.outcomes) :
          run.outcomes[i] \in {"insert_error", "update_error"}

\* the request of the webhook run r has a wrong secret while one is configured
WrongSecret(r) == env.secret /\ r.req[1].secret # "ok"

\* the request of the webhook run r has no body, or a body without lead
NoLead(r) ==
    \/ r.req[1].body.t \in {"undefined", "null"}
    \/ Prop(r.req[1].body, "lead").t \in {"undefined", "null"}

\* C11: a webhook request with a wrong secret (one being configured) is
\* answered 403, one with no body or no lead 400; the step that answers so
\* ends the run with nothing looked up, written or notified and leaves the
\* tables as they were.
C11_RejectedRequestStartsNothing ==
    [][(runs' # runs /\ run'.kind = "webhook") =>
         /\ WrongSecret(run') => run'.responses = <<403>>
         /\ (~WrongSecret(run') /\ NoLead(run')) => run'.responses = <<400>>
         /\ (WrongSecret(run') \/ NoLead(run')) =>
               /\ run'.pc = "done"
               /\ run'.branch = "none"
               /\ run'.outcomes = <<>>
               /\ run'.dispatched = <<>>
               /\ leads' = leads
               /\ slack_alerts' = slack_alerts]_vars

C11_Witness ==
    /\ run.kind = "webhook"
    /\ run.req[1].secret = "bad"
    /\ env.secret
    /\ run.responses = <<403>>
    /\ run.pc = "done"

\* rows of slack_alerts written for the call c of the Notifier
AlertRowsFor(c) ==
    { i \in 1..Len(slack_alerts) :
        /\ slack_alerts[i].lead_id = c.lead_id
        /\ slack_alerts[i].score_at_send = c.score }

\* C12: once a sync or webhook payload is finished and no store call failed,
\* every call of the Notifier made for its saved lead has an alert record
\* with that lead and score, whose token is a placeholder when the Notifier
\* returned none.
C12_AlertRecordForEverySend ==
    ((SyncPayloadFinished \/ WebhookFinished) /\ faults = 0) =>
        \A n \in 1..Len(run.dispatched) :
            LET c == run.dispatched[n] IN
            \E i \in AlertRowsFor(c) :
                c.outcome # "ts" => slack_alerts[i].slack_message_ts # S_ts

\* a call of the Notifier for the current payload returned no timestamp
NotifierReturnedNone ==
    \E n \in 1..Len(run.dispatched) : run.dispatched[n].outcome # "ts"

\* C13: when a notification of a payload returned no timestamp, the lead
\* written for the payload is in the store as it was written, nothing of the
\* payload is recorded as an error, and a sync run counts the payload as
\* processed.
C13_FailedNotificationKeepsWrite ==
    ((SyncPayloadFinished \/ WebhookFinished) /\ NotifierReturnedNone) =>
        /\ run.saved # <<>>
        /\ leads[run.saved[1].id] = run.saved[1]
        /\ run.branch \notin {"skipped", "threw", "find_error"}
        /\ run.kind = "sync" =>
              /\ run.items[Len(run.items)] = "saved"
              /\ run.processedCount = Cardinality(ItemsThat("saved"))
              /\ run.errorCount = Len(run.items) - Cardinality(ItemsThat("saved"))

C13_Witness ==
    /\ SyncPayloadFinished
    /\ run.dispatched # <<>>
    /\ run.dispatched[1].kind = "new_lead"
    /\ run.dispatched[1].outcome = "none"
    /\ run.processedCount = 1
    /\ run.errorCount = 0
    /\ leads[run.saved[1].id] = run.saved[1]

\* C14: every value calculateInitialScore returns is a number that is at
\* least 0.
C14_ScoreNeverNegative ==
    run.pc = "score_returned" =>
        /\ run.returned # NoNum
        /\ run.returned[1] >= 0

\* the fixed table of status points
StatusTable ==
    { <<S_QualifiedLead, 25>>, <<S_Contact, 10>>, <<S_Prospect, 5>>, <<S_open, 8>> }

TablePoints(l) ==
    LET hits == { p \in StatusTable : p[1] = Get(l, "leadStatus") }
    IN  IF hits = {} THEN 0 ELSE (CHOOSE p \in hits : TRUE)[2]

\* the field is a non-empty string that contains one of the words, in any case
Contains(field, words) ==
    Truthy(field) /\ \E w \in words : includes(toLowerCase(field), w)

Bonus(condition, points) == IF condition THEN points ELSE 0

TimeFramePhrases == << <<S_within1, 25>>, <<S_within3, 15>>, <<S_within6, 10>> >>

FirstPhrasePoints(l) ==
    LET found == { i \in 1..3 : Contains(Get(l, "time_frame_5eceb4e7d9474"),
                                          {TimeFramePhrases[i][1]}) }
    IN  IF found = {} THEN 0
        ELSE TimeFramePhrases[CHOOSE i \in found : \A j \in found : i <= j][2]

\* floor(upstream score x 0.5) when the upstream score parses, else 0
UpstreamPoints(l) ==
    LET ls == Get(l, "leadScore")
    IN  IF Truthy(ls) /\ parseInt(ls) # NoNum
          THEN CHOOSE k \in -100..100 : 2 * k <= parseInt(ls)[1] /\ parseInt(ls)[1] < 2 * k + 2
          ELSE 0

AdditiveSum(l, hasPhone) ==
      TablePoints(l)
    + Bonus(Contains(Get(l, "title"), {S_manager, S_director, S_vp, S_owner}), 15)
    + Bonus(Contains(Get(l, "title"), {S_ceo, S_president}), 20)
    + Bonus(Truthy(Get(l, "emailAddress")), 5)
    + Bonus(hasPhone, 5)
    + Bonus(Truthy(Get(l, "companyName")), 5)
    + FirstPhrasePoints(l)
    + UpstreamPoints(l)

\* not a customer, not unsubscribed, no competitor-domain email
PlainLead(l) ==
    /\ Get(l, "isCustomer") # S_1
    /\ Get(l, "isUnsubscribed") # S_1
    /\ ~(Truthy(Get(l, "emailAddress")) /\ endsWith(Get(l, "emailAddress"), S_competitor))

\* status 'Qualified Lead', title 'VP of Sales', email and phone, 'within 1
\* month', no company, no upstream score
ExampleLead ==
    [ leadStatus |-> S_QualifiedLead, title |-> S_VPofSales, emailAddress |-> EmailA,
      phoneNumber |-> <<"5","5","5">>, mobilePhoneNumber |-> Undefined,
      companyName |-> Undefined, time_frame_5eceb4e7d9474 |-> S_within1,
      leadScore |-> Undefined, isCustomer |-> Undefined, isUnsubscribed |-> Undefined ]

FloorOf(num, den) ==
    CHOOSE k \in -300..300 : den * k <= num /\ num < den * (k + 1)

Multiplied(total, l) ==
    IF Get(l, "isCustomer") = S_1 THEN FloorOf(3 * total, 2) ELSE total

Penalised(total, l) ==
    IF Truthy(Get(l, "emailAddress")) /\ endsWith(Get(l, "emailAddress"), S_competitor)
      THEN total - 10 ELSE total

Dampened(total, l) ==
    IF Get(l, "isUnsubscribed") = S_1 THEN FloorOf(total, 2) ELSE total

\* C16: the number returned is the sum of the additive terms, multiplied by
\* 1.5 and floored for a customer, then lowered by 10 for a competitor-domain
\* email, then halved and floored for an unsubscribed lead, then raised to 0
\* when it is below.
C16_StepOrder ==
    (run.pc = "score_returned" /\ run.returned # NoNum) =>
        run.returned =
            Num(Max(0, Dampened(Penalised(Multiplied(AdditiveSum(run.ssLead, Truthy(Get(run.ssLead, "phoneNumber"))),
                                                     run.ssLead),
                                          run.ssLead),
                                run.ssLead)))

\* a customer with a competitor-domain email who is unsubscribed:
\* 25 + 5 = 30, then 45, then 35, then 17
C16_Witness ==
    /\ run.pc = "score_returned"
    /\ run.ssLead.isCustomer = S_1
    /\ run.ssLead.isUnsubscribed = S_1
    /\ run.ssLead.emailAddress = S_atCompetitor
    /\ run.ssLead.leadStatus = S_QualifiedLead
    /\ AdditiveSum(run.ssLead, Truthy(Get(run.ssLead, "phoneNumber"))) = 30
    /\ run.returned = Num(17)

\* the phone of the lead as it is stored: the first of the mobile, primary
\* and office phone that is present
HasCanonicalPhone(l) == mapSharpSpringToLead(l).phone # Null

\* C17: the number returned holds 5 points for the phone exactly when the
\* canonical phone of the lead is present, whatever the email and the company
\* name are.
C17_PhoneBonusOfCanonicalPhone ==
    (run.pc = "score_returned" /\ run.returned # NoNum) =>
        run.returned =
            Num(Max(0, Dampened(Penalised(Multiplied(AdditiveSum(run.ssLead,
                                                                 HasCanonicalPhone(run.ssLead)),
                                                     run.ssLead),
                                          run.ssLead),
                                run.ssLead)))

TypeTable ==
    { <<S_call, 10>>, <<S_meeting, 15>>, <<S_demo, 25>>, <<S_sms, 5>>, <<S_email, 5>>,
      <<S_note, 2>> }

\* the points of the type, whatever its case; 1 for a type outside the table
TypeDelta(type) ==
    LET hits == { p \in TypeTable : p[1] = toLowerCase(type) }
    IN  IF hits = {} THEN 1 ELSE (CHOOSE p \in hits : TRUE)[2]

PositivePhrases == { S_positive_sentiment, S_interested, S_next_steps_scheduled }

NegativePhrases == { S_negative_sentiment, S_not_interested, S_objections }

ProposalPhrases == { S_sent_proposal, S_requested_quote }

\* each group counts once, however many of its phrases the summary holds
KeywordDelta(summary) ==
    IF summary = Null THEN 0
    ELSE Bonus(Contains(summary, PositivePhrases), 10)
         - Bonus(Contains(summary, NegativePhrases), 5)
         + Bonus(Contains(summary, ProposalPhrases), 15)

\* C18: recalculateScoreOnInteraction returns the larger of 0 and the current
\* score plus the points of the interaction type plus the points of the
\* phrase groups found in the summary.
C18_RecalculatedScore ==
    run.pc = "recalc_returned" =>
        run.returned = Num(Max(0, run.score + TypeDelta(run.req[1].interactionType)
                                            + KeywordDelta(run.aiSummary)))

\* 70 + 25 for 'Demo' + 10 - 5 for 'Not interested'
C18_Witness ==
    /\ run.pc = "recalc_returned"
    /\ run.score = 70
    /\ run.req[1].interactionType = S_Demo
    /\ run.aiSummary = S_Not_interested
    /\ run.returned = Num(100)

IsSpace(c) == c \in {" ", "\t"}

\* the length of the token s starts with
TokenLength(s) ==
    IF \E i \in 1..Len(s) : IsSpace(s[i])
      THEN (CHOOSE i \in 1..Len(s) : IsSpace(s[i]) /\ \A j \in 1..(i - 1) : ~IsSpace(s[j])) - 1
      ELSE Len(s)

RECURSIVE Tokens(_)
\* the whitespace-separated tokens of s
Tokens(s) ==
    IF s = <<>> THEN <<>>
    ELSE IF IsSpace(s[1]) THEN Tokens(Tail(s))
    ELSE << SubSeq(s, 1, TokenLength(s)) >> \o Tokens(SubSeq(s, TokenLength(s) + 1, Len(s)))

RECURSIVE JoinTokens(_)
JoinTokens(ts) ==
    IF ts = <<>> THEN <<>>
    ELSE IF Len(ts) = 1 THEN ts[1]
    ELSE ts[1] \o <<" ">> \o JoinTokens(Tail(ts))

\* the display name of a payload that is a string, or an object whose one key
\* is a name that is a string, alone or under a lead key
HasOnlyName(x) ==
    /\ x.t = "object"
    /\ x.sub = <<>>
    /\ DOMAIN x.v = {"name"}
    /\ Lift(x.v.name).t = "string"
    /\ x.v.name # <<>>

IsNameOnlyPayload(x) ==
    \/ x.t = "string"
    \/ HasOnlyName(x)
    \/ x.t = "object" /\ x.v = <<>> /\ Len(x.sub) = 1 /\ x.sub[1].key = "lead"
                      /\ HasOnlyName(x.sub[1].val)

DisplayName(x) ==
    IF x.t = "string" THEN x.v
    ELSE IF x.sub = <<>> THEN x.v.name
    ELSE x.sub[1].val.v.name

IsWebhookId(id) ==
    /\ Len(id) > Len(S_webhookDash)
    /\ SubSeq(id, 1, Len(S_webhookDash)) = S_webhookDash
    /\ \A i \in (Len(S_webhookDash) + 1)..Len(id) : IsDigit(id[i])

\* C19: a payload that is a string, or whose lead object has a name and
\* nothing else, is normalized to a record whose first name is the first
\* whitespace-separated token of the name, whose last name is the other
\* tokens joined by a blank, whose email address and phone number are null
\* and whose identifier is webhook- followed by digits.
C19_NameOnlyRecord ==
    (run.kind = "normalize" /\ run.pc # "normalize_call" /\ IsNameOnlyPayload(run.req[1])) =>
        LET tokens == Tokens(DisplayName(run.req[1])) IN
        /\ run.pc = "normalize_returned"
        /\ run.ssLead.firstName = (IF tokens = <<>> THEN <<>> ELSE tokens[1])
        /\ run.ssLead.lastName = (IF tokens = <<>> THEN <<>> ELSE JoinTokens(Tail(tokens)))
        /\ run.ssLead.emailAddress = Null
        /\ run.ssLead.phoneNumber = Null
        /\ IsWebhookId(run.ssid)
        /\ run.ssLead.id = run.ssid

\* null, or an object without a key
IsEmptyPayload(x) ==
    \/ x.t = "null"
    \/ x.t = "object" /\ DOMAIN x.v = {} /\ x.sub = <<>>

\* C20: the normalization of processWebhookLead returns for every payload,
\* with an identifier that is a non-empty string; for a null payload and for
\* an empty object the identifier is a synthesized one and the record holds
\* nothing else.
C20_NormalizationNeverThrows ==
    (run.kind = "normalize" /\ run.pc # "normalize_call") =>
        /\ run.pc = "normalize_returned"
        /\ run.ssid \notin {<<>>, Null, Undefined}
        /\ IsEmptyPayload(run.req[1]) =>
              /\ IsWebhookId(run.ssid)
              /\ DOMAIN run.ssLead \subseteq {"id"}

\* the payload the run took up came without an id
MissingId(r) == Get(r.ssLead, "id") \in {Undefined, Null}

\* C21: a payload without an id is no error of a sync run or of a webhook
\* delivery: when no store call fails, its lead is stored under a
\* synthesized identifier and the sync run counts no error for it.
C21_MissingIdIsNoError ==
    /\ (SyncPayloadFinished /\ MissingId(run) /\ faults = 0) =>
          /\ run.saved # <<>>
          /\ run.items[Len(run.items)] = "saved"
          /\ run.errorCount = Len(run.items) - Cardinality(ItemsThat("saved"))
    /\ (WebhookFinished /\ run.responses = <<200>> /\ run.branch # "threw"
           /\ env.supabase /\ IsWebhookId(run.ssid) /\ faults = 0) =>
          /\ run.saved # <<>>
          /\ run.saved[1].sharpspring_id = run.ssid

\* C22: an interaction request whose lead was found goes through the lookup,
\* the summary, the append of the interaction, the new score computed by
\* recalculateScoreOnInteraction from the score read at the lookup, and the
\* persist of that score, in this order; a high-score alert is dispatched
\* only after the persist, and a request that is answered with 200 has
\* dispatched one exactly when the new score is at or above the threshold
\* and the score read at the lookup was below it.
C22_InteractionStepOrder ==
    [][(run.kind = "interaction" /\ run.pc # "done" /\ run' # run) =>
        /\ run'.pc = "ia_summarize" =>
              /\ run.pc = "ia_find"
              /\ run'.existing # <<>>
              /\ run'.originalScore = leads[run'.existing[1].id].score
        /\ run'.pc = "ia_add" => run.pc = "ia_summarize"
        /\ run'.pc = "ia_update" =>
              /\ run.pc = "ia_add"
              /\ Len(interactions') = Len(interactions) + 1
              /\ interactions'[Len(interactions')].lead_id = run.existing[1].id
              /\ leads' = leads
              /\ run'.score = recalculateScoreOnInteraction(run.originalScore,
                                   run.req[1].interactionType, run.aiSummary)
        /\ leads' # leads =>
              /\ run.pc = "ia_update"
              /\ leads'[run.existing[1].id].score = run.score
        /\ run'.pc = "ia_notify" =>
              /\ run.pc = "ia_update"
              /\ leads'[run.existing[1].id].score = run.score
        /\ run'.dispatched # run.dispatched =>
              /\ run.pc = "ia_notify"
              /\ leads[run.existing[1].id].score = run.score
              /\ Len(run'.dispatched) = 1
              /\ run'.dispatched[1].kind = "high_score"
        /\ (run'.pc = "done" /\ run'.responses = <<200>>) =>
              /\ leads'[run.existing[1].id].score = run'.score
              /\ (run'.dispatched # <<>>) <=>
                    (run'.score >= LEAD_SCORE_THRESHOLD
                       /\ run'.originalScore < LEAD_SCORE_THRESHOLD)]_vars

C22_Witness ==
    /\ run.kind = "interaction"
    /\ run.pc = "done"
    /\ run.responses = <<200>>
    /\ run.originalScore < LEAD_SCORE_THRESHOLD
    /\ run.score >= LEAD_SCORE_THRESHOLD
    /\ Len(run.dispatched) = 1
    /\ interactions # <<>>
    /\ leads[run.existing[1].id].score = run.score

\* C23: an interaction request whose lead was found is answered with 200
\* whatever became of the summary, when no store call fails: the interaction
\* is appended, and without a summary the score persisted is the one
\* recomputed with a null summary.
C23_SummaryFailureIsNoError ==
    (run.kind = "interaction" /\ run.pc = "done" /\ run.existing # <<>> /\ faults = 0) =>
        /\ run.responses = <<200>>
        /\ \E i \in 1..Len(interactions) : interactions[i].lead_id = run.existing[1].id
        /\ run.aiSummary = Null =>
              leads[run.existing[1].id].score =
                  recalculateScoreOnInteraction(run.originalScore,
                                                run.req[1].interactionType, Null)

\* the two runs in flight
TwoRuns == << run, run.parked[1] >>

Has(r, outcome) == \E i \in 1..Len(r.outcomes) : r.outcomes[i] = outcome

\* C24: however the steps of two runs for one external identifier interleave,
\* no two stored leads have the same external identifier; a run whose insert
\* the store refused has saved nothing, has ended and has dispatched no
\* notification, a sync run counting it as an error; and when both runs took
\* the create branch and no store call failed otherwise, one insert
\* succeeded and the other was refused.
C24_NoDuplicateUnderInterleaving ==
    /\ \A i, j \in 1..Len(leads) :
          leads[i].sharpspring_id = leads[j].sharpspring_id => i = j
    /\ \A n \in 1..2 :
          LET r == TwoRuns[n] IN
          Has(r, "insert_error") =>
              /\ r.saved = <<>>
              /\ r.dispatched = <<>>
              /\ r.pc = "done"
              /\ r.kind = "sync" => (r.errorCount = 1 /\ r.processedCount = 0)
    /\ (/\ \A n \in 1..2 : TwoRuns[n].pc = "done" /\ TwoRuns[n].branch = "create"
        /\ faults = 0) =>
          \E n \in 1..2 :
              /\ Has(TwoRuns[n], "inserted")
              /\ Has(TwoRuns[3 - n], "insert_error")

C24_Witness ==
    /\ Len(leads) = 1
    /\ faults = 0
    /\ run.pc = "done"
    /\ run.branch = "create"
    /\ Has(run, "insert_error")
    /\ run.dispatched = <<>>
    /\ run.parked[1].branch = "create"
    /\ Has(run.parked[1], "inserted")
    /\ run.parked[1].dispatched # <<>>

HighAlertsOf(r) ==
    Cardinality({ i \in 1..Len(r.dispatched) : r.dispatched[i].kind = "high_score" })

\* C25: nothing ties the lookup of a run to its write.  When two runs for one
\* external identifier have both written, the stored lead is the row one of
\* them wrote, and a sync run or an interaction request has dispatched a
\* high-score alert exactly when its own new score is at or above the
\* threshold and the score it read is below, whatever the other run wrote in
\* between.
C25_LastWriteWins ==
    (\A n \in 1..2 : TwoRuns[n].pc = "done") =>
        /\ (\A n \in 1..2 : TwoRuns[n].saved # <<>>) =>
              \E n \in 1..2 : leads[TwoRuns[n].saved[1].id] = TwoRuns[n].saved[1]
        /\ \A n \in 1..2 :
              LET r == TwoRuns[n] IN
              (r.kind \in {"sync", "interaction"} /\ r.saved # <<>>) =>
                  (HighAlertsOf(r) = 1 <=> crossedThreshold(r.score, r.originalScore))

\* both runs read the stored score 75, both wrote, both alerted, and the
\* write of the parked run is lost
C25_Witness ==
    /\ \A n \in 1..2 :
          /\ TwoRuns[n].pc = "done"
          /\ TwoRuns[n].kind \in {"sync", "interaction"}
          /\ TwoRuns[n].originalScore = 75
          /\ TwoRuns[n].saved # <<>>
          /\ HighAlertsOf(TwoRuns[n]) = 1
    /\ leads[1].score = run.score
    /\ run.parked[1].score # run.score
    /\ run.storedBefore >= LEAD_SCORE_THRESHOLD

\* C26: the score of every stored lead is an integer that is at least 0.
C26_StoredScoreIsNatural ==
    \A i \in 1..Len(leads) : leads[i].score \in Nat

\* a lead whose additive score is below 0 is stored with the score 0
C26_Witness ==
    /\ run.kind = "sync"
    /\ run.pc \in {"sync_item", "done"}
    /\ run.ssLead = WithId(LowBody, L2)
    /\ run.saved # <<>>
    /\ leads[run.saved[1].id].score = 0
    /\ calculateInitialScoreUnclamped(run.ssLead) < 0

\* a sync or webhook payload's update of an existing lead succeeds in this step
UpdateStep ==
    /\ run.pc \in {"sync_update", "wh_update"}
    /\ run'.kind = run.kind
    /\ run'.parked = run.parked
    /\ run'.outcomes = Append(run.outcomes, "updated")

\* C27: when a sync or webhook payload updates an existing lead, the score
\* stored by the update is the initial score of the fresh payload, whatever
\* score the lead held before; points added by interactions are discarded.
C27_UpdateDiscardsStoredScore ==
    [][ UpdateStep =>
          leads'[run.existing[1].id].score = calculateInitialScore(run.ssLead)
      ]_vars

C27_Witness ==
    /\ UpdateSaved
    /\ \E i \in 1..Len(interactions) : interactions[i].lead_id = run.saved[1].id
    /\ run.storedBefore > SeedLead.score
    /\ run.storedBefore > calculateInitialScore(run.ssLead)
    /\ leads[run.saved[1].id].score = calculateInitialScore(run.ssLead)

\* the interaction-logging request persists its new score in this step
ScoreStep ==
    /\ run.pc = "ia_update"
    /\ run'.kind = run.kind
    /\ run'.parked = run.parked
    /\ run'.saved # <<>>

\* C28: a write to an existing lead leaves its internal identifier, its
\* created timestamp and its external identifier as they were; every create,
\* update and score persist sets the updated timestamp to the time of the
\* write; the created timestamp is written only when the lead is created.
C28_UpdateKeepsIdentityAndCreated ==
    [][ /\ Len(leads') >= Len(leads)
        /\ \A i \in 1..Len(leads) :
              /\ leads'[i].id = leads[i].id
              /\ leads'[i].created_at = leads[i].created_at
              /\ leads'[i].sharpspring_id = leads[i].sharpspring_id
              /\ leads'[i] # leads[i] => leads'[i].updated_at = now
        /\ \A i \in (Len(leads) + 1)..Len(leads') :
              /\ run.pc \in {"sync_insert", "wh_insert"}
              /\ leads'[i].created_at = now
              /\ leads'[i].updated_at = now
        /\ (UpdateStep \/ ScoreStep) =>
              leads'[run.existing[1].id].updated_at = now
      ]_vars

C28_Witness ==
    /\ UpdateSaved
    /\ run.existing[1].updated_at < now
    /\ leads[run.saved[1].id].updated_at = now
    /\ leads[run.saved[1].id].created_at = run.existing[1].created_at
    /\ leads[run.saved[1].id].created_at < now
    /\ run.saved[1].id = run.existing[1].id
    /\ leads[run.saved[1].id].sharpspring_id = run.existing[1].sharpspring_id
    /\ \E i \in 1..Len(interactions) : interactions[i].lead_id = run.saved[1].id

\* the lookup by external identifier of a sync or webhook payload is answered
\* in this step
FindStep ==
    /\ run.pc \in {"sync_find", "wh_find"}
    /\ run'.kind = run.kind
    /\ run'.parked = run.parked
    /\ run' # run

\* C29: when the lookup by external identifier fails with a store error other
\* than 'not found', the processing of that payload ends with no store write
\* and no notification, the bulk sync counting one error and going on to the
\* next payload; a lookup that finds no lead is no error and takes the create
\* branch (in the webhook, where scoring follows the lookup, unless scoring
\* throws).
C29_LookupErrorEndsPayload ==
    [][ FindStep =>
          IF faults' # faults
            THEN /\ run'.branch = "find_error"
                 /\ leads' = leads
                 /\ slack_alerts' = slack_alerts
                 /\ run'.outcomes = run.outcomes
                 /\ run'.dispatched = run.dispatched
                 /\ run'.saved = <<>>
                 /\ run.kind = "sync" =>
                       /\ run'.errorCount = run.errorCount + 1
                       /\ run'.idx = run.idx + 1
                       /\ run'.pc = IF run.idx < run.fetched THEN "sync_item" ELSE "done"
                 /\ run.kind = "webhook" => run'.pc = "done"
          ELSE IF RowsWith(run.ssid) = {}
            THEN /\ run'.branch \notin {"find_error", "update"}
                 /\ run'.errorCount = run.errorCount
                 /\ (run.kind = "sync" \/ ~scoringThrows(run.ssLead)) =>
                       /\ run'.branch = "create"
                       /\ run'.pc \in {"sync_insert", "wh_insert"}
          ELSE TRUE
      ]_vars

C29_Witness ==
    /\ run.kind = "sync"
    /\ run.pc = "done"
    /\ Len(run.items) = 2
    /\ run.items[1] = "find_error"
    /\ run.items[2] = "saved"
    /\ run.errorCount = 1
    /\ run.newLeadsCount = 1
    /\ Len(leads) = 1

\* the entries of value that are objects having an id, a first name or an
\* email address
Qualifying(value) ==
    { i \in 1..Len(value.sub) :
        /\ value.sub[i].val.t = "object"
        /\ \E k \in {"id", "firstName", "emailAddress"} :
              TruthyValue(Prop(value.sub[i].val, k)) }

\* the normalization returned lfp as the lead to process
Processes(lfp) ==
    IF nameOnly(lfp)
      THEN /\ Get(run.ssLead, "firstName") = firstNamePart(nameString(lfp).v)
           /\ IsWebhookId(run.ssid)
      ELSE run.ssLead = lfp.v

\* C30: the scan of the payload's top-level entries runs only when the
\* working payload is an object with neither an id nor a first name; it
\* adopts the first entry, in key order, that is an object having an id, a
\* first name or an email address; the working payload stays when no entry
\* qualifies, so that a lead two levels down is not resolved.
C30_NestedScanAdoptsFirstEntry ==
    run.pc = "normalize_returned" =>
        LET ssLead  == run.req[1]
            working == IF TruthyValue(Prop(ssLead, "lead"))
                         THEN Prop(ssLead, "lead") ELSE ssLead
            scans   == /\ working.t = "object"
                       /\ ~TruthyValue(Prop(working, "id"))
                       /\ ~TruthyValue(Prop(working, "firstName"))
            hits    == Qualifying(ssLead)
        IN  /\ ~scans => Processes(working)
            /\ scans /\ hits = {} => Processes(working)
            /\ scans /\ hits # {} =>
                  \E i \in hits : /\ \A j \in hits : i <= j
                                   /\ Processes(ssLead.sub[i].val)
            /\ (hits = {} /\ \E i \in 1..Len(ssLead.sub) :
                                Qualifying(ssLead.sub[i].val) # {}) =>
                  \A i \in 1..Len(ssLead.sub) :
                      \A j \in Qualifying(ssLead.sub[i].val) :
                          run.ssLead # ssLead.sub[i].val.sub[j].val.v

C30_Witness ==
    /\ run.pc = "normalize_returned"
    /\ run.req[1] = ScanFirst
    /\ Qualifying(run.req[1]) = {2, 3}
    /\ run.ssLead = [emailAddress |-> EmailB]
    /\ IsWebhookId(run.ssid)

\* a webhook delivery whose payload had no id: its identifier was generated
\* from the time of processing
GeneratedId == run.kind = "webhook" /\ run.branch # "none" /\ IsWebhookId(run.ssid)

\* C31: a webhook delivery of a payload without an id resolves to an
\* identifier made from the time of processing, which no lead stored by an
\* earlier delivery of the same payload has; it therefore takes the create
\* branch, and when its insert succeeds the store has one more lead and one
\* new-lead notification was dispatched; two deliveries of the same payload
\* leave two leads.
C31_IdlessDeliveriesCreateTwice ==
    /\ (run.kind = "webhook" /\ run.pc = "wh_find" /\ IsWebhookId(run.ssid)) =>
          /\ run.ssid = S_webhookDash \o IntToString(now)
          /\ RowsWith(run.ssid) = {}
    /\ GeneratedId => run.branch \in {"create", "find_error", "threw"}
    /\ (GeneratedId /\ run.saved # <<>>) =>
          /\ run.outcomes = <<"inserted">>
          /\ RowsWith(run.ssid) = {run.saved[1].id}
          /\ run.saved[1].id = Len(leads)
          /\ run.pc \in {"wh_followup", "done"} =>
                /\ Count("new_lead") = 1
                /\ Len(run.dispatched) = 1

C31_Witness ==
    /\ WebhookFinished
    /\ GeneratedId
    /\ run.saved # <<>>
    /\ Len(leads) = 2
    /\ leads[1].name = S_Karli /\ leads[2].name = S_Karli
    /\ IsWebhookId(leads[1].sharpspring_id)
    /\ leads[1].sharpspring_id # leads[2].sharpspring_id
    /\ Len(slack_alerts) = 2
    /\ slack_alerts[1].lead_id = 1 /\ slack_alerts[2].lead_id = 2
    /\ Count("new_lead") = 1

\* C32: at every point of a bulk-sync run each payload iterated over so far
\* has been counted once, in the processed count if the loop body ran to
\* its end and in the error count otherwise; at the end of the run the two
\* counts add up to the number of fetched payloads.
C32_EveryPayloadCountedOnce ==
    run.kind = "sync" =>
        /\ Len(run.items) = run.idx - 1
        /\ run.processedCount = Cardinality(ItemsThat("saved"))
        /\ run.errorCount = Len(run.items) - Cardinality(ItemsThat("saved"))
        /\ run.processedCount + run.errorCount = Len(run.items)
        /\ run.pc = "done" => run.processedCount + run.errorCount = run.fetched

C32_Witness ==
    /\ run.kind = "sync"
    /\ run.pc = "done"
    /\ run.fetched = 2
    /\ run.items = <<"saved", "skipped">>
    /\ run.processedCount = 1
    /\ run.errorCount = 1

\* the number of outcomes of the last payload that are result
Outcomes(result) ==
    Cardinality({ i \in 1..Len(run.outcomes) : run.outcomes[i] = result })

\* C33: at the end of a bulk-sync run the created count and the updated
\* count add up to the number of payloads whose lead was saved, which is the
\* processed count; for the payload handled last, the created count went up
\* by one exactly if a lead was inserted and the updated count exactly if a
\* lead was updated.
C33_CreatedAndUpdatedAreActualWrites ==
    (run.kind = "sync" /\ run.pc = "done") =>
        /\ run.newLeadsCount + run.updatedLeadsCount = Cardinality(ItemsThat("saved"))
        /\ run.newLeadsCount + run.updatedLeadsCount = run.processedCount
        /\ run.fetched = 1 =>
              /\ run.newLeadsCount = Outcomes("inserted")
              /\ run.updatedLeadsCount = Outcomes("updated")

\* an Alert Record is appended in this step
AlertLogged == Len(slack_alerts') = Len(slack_alerts) + 1

\* C34: an Alert Record is appended only by a run that has written a lead
\* and, in the same step, after the notification for that lead was
\* attempted; the record refers to that lead, which is in the store, and
\* its score-at-send is the score the run wrote to the lead.
C34_AlertRecordFollowsWrite ==
    [][ /\ Len(slack_alerts') >= Len(slack_alerts)
        /\ SubSeq(slack_alerts', 1, Len(slack_alerts)) = slack_alerts
        /\ Len(slack_alerts') <= Len(slack_alerts) + 1
        /\ AlertLogged =>
              LET alert == slack_alerts'[Len(slack_alerts')] IN
              /\ run.kind \in {"sync", "webhook"}
              /\ run.saved # <<>>
              /\ run.outcomes # <<>>
              /\ run.outcomes[Len(run.outcomes)] \in {"inserted", "updated"}
              /\ alert.lead_id = run.saved[1].id
              /\ alert.lead_id \in 1..Len(leads)
              /\ leads' = leads
              /\ alert.score_at_send = run.saved[1].score
              /\ alert.score_at_send = run.score
              /\ Len(run'.dispatched) = Len(run.dispatched) + 1
              /\ run'.dispatched[Len(run'.dispatched)].lead_id = alert.lead_id
              /\ run'.dispatched[Len(run'.dispatched)].score = alert.score_at_send
      ]_vars

C34_Witness ==
    /\ run.kind = "webhook"
    /\ run.branch = "update"
    /\ run.saved # <<>>
    /\ run.originalScore # run.score
    /\ Len(slack_alerts) = 1
    /\ slack_alerts[1].lead_id = run.saved[1].id
    /\ slack_alerts[1].score_at_send = leads[run.saved[1].id].score
    /\ Len(run.dispatched) = 1

\* the leads the identifier of the interaction request req names
Named(req) ==
    { i \in 1..Len(leads) :
        IF req.identifierType = S_email
          THEN leads[i].email = req.leadIdentifier
          ELSE leads[i].sharpspring_id = req.leadIdentifier }

\* C35: an interaction-logging request gets past the validation only with
\* its four fields and an identifier kind of email or sharpspring_id, and is
\* answered 400 otherwise; a request whose lookup finds no lead is answered
\* 404; a request answered 400 or 404 is over, and the step that answers it
\* appends no interaction, changes no lead and dispatches no notification.
C35_RejectedInteractionChangesNothing ==
    [][ /\ (run'.kind = "interaction" /\ run.pc = "done" /\ run' # run
                /\ run'.parked = run.parked) =>
              IF run'.req = <<>>
                THEN run'.responses = <<400>> /\ run'.pc = "done"
                ELSE /\ run'.req[1] \in InteractionRequests
                     /\ \A k \in DOMAIN run'.req[1] : Truthy(run'.req[1][k])
                     /\ run'.req[1].identifierType \in {S_email, S_sharpspring_id}
                     /\ run'.responses = <<>>
        /\ (run.pc = "ia_find" /\ run' # run /\ run'.parked = run.parked
                /\ faults' = faults /\ Named(run.req[1]) = {}) =>
              run'.responses = <<404>>
        /\ (run'.kind = "interaction" /\ run' # run /\ run'.parked = run.parked
                /\ run'.responses \in {<<400>>, <<404>>}) =>
              /\ run'.pc = "done"
              /\ run'.dispatched = <<>>
              /\ run'.saved = <<>>
              /\ interactions' = interactions
              /\ leads' = leads
              /\ slack_alerts' = slack_alerts
      ]_vars

C35_Witness ==
    /\ run.kind = "interaction"
    /\ run.pc = "done"
    /\ run.responses = <<404>>
    /\ run.req # <<>>
    /\ leads # <<>>
    /\ Named(run.req[1]) = {}
    /\ interactions = <<>>
    /\ run.dispatched = <<>>

\* the positions at which the string s holds the string sub
Occurrences(s, sub) ==
    { i \in 1..(Len(s) - Len(sub) + 1) : SubSeq(s, i, i + Len(sub) - 1) = sub }

\* a summary that says 'not interested' and holds no phrase of the positive
\* or the proposal group outside that text
SaysOnlyNotInterested(summary) ==
    /\ Truthy(summary)
    /\ LET lower == toLowerCase(summary)
           lead  == Len(S_not_interested) - Len(S_interested)
       IN  /\ Occurrences(lower, S_not_interested) # {}
           /\ \A i \in Occurrences(lower, S_interested) :
                 (i - lead) \in Occurrences(lower, S_not_interested)
           /\ \A phrase \in (PositivePhrases \ {S_interested}) \cup ProposalPhrases :
                 Occurrences(lower, phrase) = {}

\* C36: for a summary that says 'not interested' and holds no positive or
\* proposal phrase besides, recalculateScoreOnInteraction returns no more
\* than it returns for the same current score and interaction type without
\* a summary.
C36_NotInterestedNeverRaises ==
    (run.pc = "recalc_returned" /\ SaysOnlyNotInterested(run.aiSummary)) =>
        run.returned[1] <= recalculateScoreOnInteraction(run.score,
                                                         run.req[1].interactionType, Null)

====
